---- MODULE Spec2Model ----
(***************************************************************************)
(* Model of the agent execution core of shai (shai-core/src/agent):        *)
(* the main loop, the command handlers, the brain task, the parallel tool  *)
(* tasks with their permission gate, the cancellation tokens, the public   *)
(* event stream and the WaitTurn watcher tasks.                            *)
(***************************************************************************)
EXTENDS Integers, Sequences, FiniteSets, TLC

\* ------------------------------------------------------------------ bounds
MaxTurns     == 2   \* brain tasks spawned in one run
MaxCmds      == 1   \* commands sent in one run, with tool tasks
MaxLoopCmds  == 2   \* commands sent in one run, without tool tasks
MaxToolTurns == 1   \* brain tasks spawned in one run, with parallel tools
MaxCalls     == 2   \* tool calls carried by one assistant message
MaxCtl       == 2   \* controller handles alive at the same time
MaxSessions  == 2   \* SessionManagerConfig.max_sessions
MaxLoads     == 2   \* get_session calls restoring the same id at a time
MaxRequests  == 2   \* handle_request calls on one AgentSession

VARIABLES
    state,      \* AgentCore.state : InternalAgentState
    trace,      \* AgentCore.trace : Vec<ChatMessage>
    claims,     \* AgentCore.permissions : ClaimManager
    cancelled,  \* the CancellationTokens that have been fired
    nextTok,    \* number of the next CancellationToken created
    brains,     \* the spawned brain tasks, by token
    phases,     \* the spawned tools phases (aggregator task), by token
    tools,      \* the spawned tool tasks, by <<token, index of the call>>
    cmdq,       \* the mpsc command channel socket.rx_command
    rx,         \* the command socket: created / closed, live controllers
    hasTx,      \* socket.tx_event is Some
    events,     \* the public events sent on socket.tx_event, in order
    ibus,       \* the internal events not yet received by internal_rx
    replies,    \* the replies sent on the commands' backchannels
    watchers,   \* the detached tasks spawned by handle_wait_turn
    returned,   \* the value start() returned, "no" while the loop runs
    nextReq,    \* number of the next permission request id
    sent,       \* number of commands sent so far
    pend,       \* what the main loop task still has to run of the handler
                \* it is in, when tool tasks can run in between
    sessions,   \* SessionManager.sessions : the ids in the HashMap
    loading,    \* the get_session calls that are restoring a session, by id
    session,    \* one AgentSession : ephemeral, holder of the controller
    requests,   \* the handle_request calls on that session
    method,     \* AgentCore.method : ToolCallMethod
    context     \* ThinkerContext.method of the spawned brain tasks, by token

vars == <<state, trace, claims, cancelled, nextTok, brains, phases, tools,
          cmdq, rx, hasTx, events, ibus, replies, watchers, returned,
          nextReq, sent, pend, sessions, loading, session, requests,
          method, context>>

\* ------------------------------------------------------------------ data
NoTok == 0

St(name) == [name |-> name, task |-> "", tok |-> NoTok, success |-> FALSE]

Processing(task, tok) ==
    [name |-> "Processing", task |-> task, tok |-> tok, success |-> FALSE]

Completed(success) ==
    [name |-> "Completed", task |-> "", tok |-> NoTok, success |-> success]

IsTerminal(s) == s.name \in {"Completed", "Failed"}

\* InternalAgentState::to_public
to_public(s) == [name |-> s.name, task |-> s.task, success |-> s.success]

NoPub == [name |-> "", task |-> "", success |-> FALSE]

\* ChatMessage; src and tok record which code appended it and for which task
Msg(role, calls, cid, res, src, tok) ==
    [role |-> role, calls |-> calls, cid |-> cid, res |-> res,
     src |-> src, tok |-> tok]

UserMsg(src) == Msg("user", {}, "", "", src, NoTok)

\* AgentEvent; tok names the task an event was emitted for
Ev(type, old, new, tok, cid, res) ==
    [type |-> type, old |-> old, new |-> new, tok |-> tok, cid |-> cid,
     res |-> res]

\* tok is the token the state that is left carried
StatusChanged(old, new, tok) == Ev("StatusChanged", old, new, tok, "", "")

\* the tools of the toolbox and their capabilities()
ToolNames == {"ls", "env", "write"}

capabilities(tool) ==
    CASE tool = "ls"    -> <<"Read">>
      [] tool = "env"   -> <<>>
      [] tool = "write" -> <<"Write">>
      [] OTHER          -> <<"Network">>

\* LlmToolCall: args is "bad" when function.arguments is not valid JSON
Call(id, name, args) == [id |-> id, name |-> name, args |-> args]

\* ClaimManager::is_permitted
is_permitted(cl, tool, params) ==
    \/ cl.sudo
    \/ <<tool, params>> \in cl.grants
    \/ tool \in cl.always

\* ------------------------------------------------- the main loop's handlers
\* The handlers run on the main loop task; they are written as operators on
\* the record S of the fields such a handler can change.
Cur ==
    [state |-> state, trace |-> trace, claims |-> claims,
     cancelled |-> cancelled, nextTok |-> nextTok, brains |-> brains,
     phases |-> phases, tools |-> tools, rx |-> rx, hasTx |-> hasTx,
     events |-> events, ibus |-> ibus, replies |-> replies,
     watchers |-> watchers, pend |-> pend, method |-> method,
     context |-> context]

Install(S) ==
    /\ state' = S.state
    /\ trace' = S.trace
    /\ claims' = S.claims
    /\ cancelled' = S.cancelled
    /\ nextTok' = S.nextTok
    /\ brains' = S.brains
    /\ phases' = S.phases
    /\ tools' = S.tools
    /\ rx' = S.rx
    /\ hasTx' = S.hasTx
    /\ events' = S.events
    /\ ibus' = S.ibus
    /\ replies' = S.replies
    /\ watchers' = S.watchers
    /\ pend' = S.pend
    /\ method' = S.method
    /\ context' = S.context

\* pos is the number of public events sent when the handler began
NoPend == [k |-> "none", tok |-> NoTok, cmd |-> <<>>, pos |-> 0]

\* AgentCore::emit_event
emit_event(S, e) ==
    IF S.hasTx THEN [S EXCEPT !.events = Append(@, e)] ELSE S

\* set_state that emits no StatusChanged
set_state_silent(S, to) == [S EXCEPT !.state = to]

\* AgentCore::set_state
set_state(S, to) ==
    [emit_event(S, StatusChanged(to_public(S.state), to_public(to),
                                 S.state.tok))
        EXCEPT !.state = to]

\* AgentCore::assert_socket_created
assert_socket_created(S) == [S EXCEPT !.hasTx = TRUE]

\* the Sender that AgentCore::controller stores in socket.tx_command
SocketSenders == 1

\* UnboundedReceiver::is_closed: close() was called or no Sender is left
is_closed(r) == r.closed \/ r.ctl + SocketSenders = 0

\* AgentCore::has_io
has_io(S) == S.rx.created /\ ~is_closed(S.rx)

\* a response sent on a command's backchannel; at is the state at that
\* instant, path the code that sent it, pos the number of public events
\* that had been sent when a WaitTurn watcher subscribed
Response(id, type, resp, at, path, pos) ==
    [id |-> id, type |-> type, resp |-> resp, at |-> at, path |-> path,
     pos |-> pos]

\* the backchannel.send of handle_command
Reply(S, cmd, resp, path) ==
    [S EXCEPT !.replies = @ \cup
        {Response(cmd.id, cmd.type, resp, S.state.name, path, 0)}]

\* AgentCore::spawn_next_step
spawn_next_step(S) ==
    LET t == S.nextTok
    IN  set_state([S EXCEPT !.nextTok = t + 1,
                            !.brains = (t :> "thinking") @@ @,
                            !.context = (t :> S.method) @@ @],
                  Processing("next_step", t))

\* a tool task that has not run yet
NewTool ==
    [o |-> "new", i |-> "none", ires |-> "", res |-> "", req |-> 0,
     presp |-> "", consulted |-> FALSE, sudoAtCheck |-> FALSE,
     executed |-> 0]

\* AgentCore::spawn_tools up to the spawn of the aggregator task; the
\* set_state that ends it is left pending, the spawned tasks are running
\* (at is the position of the assistant message that carries the calls,
\* the last of the trace when the phase is spawned)
spawn_tools(S, calls) ==
    LET t == S.nextTok
    IN  [S EXCEPT !.nextTok = t + 1,
                  !.phases = (t :> [calls |-> calls, ptx |-> S.hasTx,
                                    agg |-> "wait",
                                    at |-> Len(S.trace)]) @@ @,
                  !.tools = [k \in {<<t, n>> : n \in 1..Len(calls)}
                                |-> NewTool] @@ @,
                  !.pend = [k |-> "tools", tok |-> t, cmd |-> <<>>,
                            pos |-> Len(S.events)]]

\* the end of AgentCore::spawn_tools
spawn_tools_set_state(S) ==
    [set_state(S, Processing("tools", S.pend.tok)) EXCEPT !.pend = NoPend]

\* handle_brain_error that pauses without telling the subscribers why
handle_brain_error_silent(S, tok) == set_state(S, St("Paused"))

\* handle_brain_error that treats the brain's error as fatal
handle_brain_error_failed(S, tok) ==
    emit_event(set_state(S, St("Failed")),
               Ev("BrainResult", NoPub, NoPub, tok, "", "err"))

\* AgentCore::handle_brain_error, the Err arm
handle_brain_error(S, tok) ==
    emit_event(set_state(S, St("Paused")),
               Ev("BrainResult", NoPub, NoPub, tok, "", "err"))

CallIdsOf(calls) == {calls[n].id : n \in 1..Len(calls)}

\* process_next_step that spawns the tools of a decision without pushing
\* the assistant message that carries the calls
process_next_step_no_push(S, d, tok) ==
    IF d.kind # "assistant"
    THEN handle_brain_error(S, tok)
    ELSE LET S2 == emit_event(S,
                        Ev("BrainResult", NoPub, NoPub, tok, "", "ok"))
         IN  IF d.calls # <<>>
             THEN spawn_tools(S2, d.calls)
             ELSE IF d.flow = "AgentContinue"
                  THEN set_state(S2, St("Running"))
                  ELSE set_state(S2, St("Paused"))

\* process_next_step that looks at the flow first: AgentContinue goes on to
\* the next turn whatever the message asks for
process_next_step_flow_first(S, d, tok) ==
    IF d.kind # "assistant"
    THEN handle_brain_error(S, tok)
    ELSE LET S1 == [S EXCEPT !.trace = Append(@,
                        Msg("assistant", CallIdsOf(d.calls), "", "",
                            "brain", tok))]
             S2 == emit_event(S1,
                        Ev("BrainResult", NoPub, NoPub, tok, "", "ok"))
             S3 == IF d.usage
                   THEN emit_event(S2,
                            Ev("TokenUsage", NoPub, NoPub, tok, "", ""))
                   ELSE S2
         IN  IF d.flow = "AgentContinue"
             THEN set_state(S3, St("Running"))
             ELSE IF d.calls # <<>>
                  THEN spawn_tools(S3, d.calls)
                  ELSE set_state(S3, St("Paused"))

\* AgentCore::process_next_step; d is the ThinkerDecision or the error the
\* brain task of token tok published
process_next_step(S, d, tok) ==
    IF d.kind # "assistant"
    THEN handle_brain_error(S, tok)
    ELSE LET S1 == [S EXCEPT !.trace = Append(@,
                        Msg("assistant", CallIdsOf(d.calls), "", "",
                            "brain", tok))]
             S2 == emit_event(S1,
                        Ev("BrainResult", NoPub, NoPub, tok, "", "ok"))
             S3 == IF d.usage
                   THEN emit_event(S2,
                            Ev("TokenUsage", NoPub, NoPub, tok, "", ""))
                   ELSE S2
         IN  IF d.calls # <<>>
             THEN spawn_tools(S3, d.calls)
             ELSE IF d.flow = "AgentContinue"
                  THEN set_state(S3, St("Running"))
                  ELSE set_state(S3, St("Paused"))

\* handle_agent_initialized that looks at the first message of the trace
handle_agent_initialized_first(S) ==
    IF S.trace # <<>> /\ S.trace[1].role = "user"
    THEN set_state(S, St("Running"))
    ELSE set_state(S, St("Paused"))

\* AgentCore::handle_agent_initialized
handle_agent_initialized(S) ==
    IF S.trace # <<>> /\ S.trace[Len(S.trace)].role = "user"
    THEN set_state(S, St("Running"))
    ELSE set_state(S, St("Paused"))

\* a Starting handler that takes any event for the initialisation
state_starting_handle_event_any(S, e) == handle_agent_initialized(S)

\* AgentCore::state_starting_handle_event
state_starting_handle_event(S, e) ==
    IF e.type = "AgentInitialized" THEN handle_agent_initialized(S) ELSE S

\* AgentCore::state_running_handle_event
state_running_handle_event(S, e) ==
    IF e.type = "ThinkingStart"
    THEN spawn_next_step(emit_event(S,
            Ev("ThinkingStart", NoPub, NoPub, NoTok, "", "")))
    ELSE S

\* AgentCore::state_processing_handle_event
state_processing_handle_event(S, e) ==
    CASE e.type = "CancelTask" ->
            [S EXCEPT !.cancelled = @ \cup {S.state.tok}]
      [] e.type = "BrainResult" -> process_next_step(S, e.d, e.tok)
      [] e.type = "ToolsCompleted" ->
            IF e.any_denied THEN set_state(S, St("Paused"))
                            ELSE set_state(S, St("Running"))
      [] OTHER -> S

\* AgentCore::state_pause_handle_event
state_pause_handle_event(S, e) == S

\* AgentCore::state_terminal_handle_event
state_terminal_handle_event(S, e) == S

\* AgentCore::handle_event
handle_event(S, e) ==
    CASE S.state.name = "Starting"   -> state_starting_handle_event(S, e)
      [] S.state.name = "Running"    -> state_running_handle_event(S, e)
      [] S.state.name = "Processing" -> state_processing_handle_event(S, e)
      [] S.state.name = "Paused"     -> state_pause_handle_event(S, e)
      [] OTHER                       -> state_terminal_handle_event(S, e)

\* InternalAgentEvent
IEv(type) == [type |-> type, d |-> <<>>, tok |-> NoTok, any_denied |-> FALSE,
              req |-> 0, resp |-> ""]

\* AgentRequest with its backchannel; id numbers the commands as sent
Cmd(type, arg, req) == [type |-> type, arg |-> arg, req |-> req, id |-> 0]

\* the messages a SendTrace carries, by name of the block
TraceBlock(arg) ==
    CASE arg = "user" -> <<UserMsg("trace")>>
      [] arg = "pair" -> <<Msg("assistant", {"c9"}, "", "", "trace", NoTok),
                           Msg("tool", {}, "c9", "Success", "trace", NoTok),
                           UserMsg("trace")>>
      [] arg = "tool" -> <<Msg("tool", {}, "c8", "Success", "trace", NoTok),
                           UserMsg("trace")>>
      [] OTHER -> <<>>

\* handle_wait_turn that answers at once when the agent is not Processing
handle_wait_turn_not_busy(S, cmd) ==
    LET S1 == assert_socket_created(S)
    IN  IF to_public(S1.state).name # "Processing"
        THEN Reply(S1, cmd, "Ack", "immediate")
        ELSE [S1 EXCEPT !.watchers = @ \cup
                {[id |-> cmd.id, pos |-> Len(S1.events)]}]

\* AgentCore::handle_wait_turn
handle_wait_turn(S, cmd) ==
    LET S1 == assert_socket_created(S)
    IN  IF to_public(S1.state).name = "Paused"
        THEN Reply(S1, cmd, "Ack", "immediate")
        ELSE [S1 EXCEPT !.watchers = @ \cup
                {[id |-> cmd.id, pos |-> Len(S1.events)]}]

CancellingCommands ==
    {"Terminate", "StopCurrentTask", "SendUserInput", "SendTrace"}

\* command_rest whose SendUserInput arm forgets the push and whose
\* SendTrace arm drops the first message of the block
command_rest_no_append(S, cmd) ==
    CASE cmd.type = "Terminate" ->
            Reply(set_state(S, Completed(FALSE)), cmd, "Ack", "loop")
      [] cmd.type = "StopCurrentTask" ->
            Reply(set_state(S, St("Paused")), cmd, "Ack", "loop")
      [] cmd.type = "SendUserInput" ->
            LET S1 == emit_event(S,
                        Ev("UserInput", NoPub, NoPub, NoTok, "", ""))
            IN  Reply(set_state(S1, St("Running")), cmd, "Ack", "loop")
      [] cmd.type = "SendTrace" ->
            LET S1 == [S EXCEPT !.trace = @ \o Tail(TraceBlock(cmd.arg))]
            IN  Reply(set_state(S1, St("Running")), cmd, "Ack", "loop")
      [] OTHER -> S

\* command_rest whose Terminate arm completes with success
command_rest_success(S, cmd) ==
    CASE cmd.type = "Terminate" ->
            Reply(set_state(S, Completed(TRUE)), cmd, "Ack", "loop")
      [] cmd.type = "StopCurrentTask" ->
            Reply(set_state(S, St("Paused")), cmd, "Ack", "loop")
      [] cmd.type = "SendUserInput" ->
            LET S1 == emit_event(S,
                        Ev("UserInput", NoPub, NoPub, NoTok, "", ""))
                S2 == [S1 EXCEPT !.trace = Append(@, UserMsg("input"))]
            IN  Reply(set_state(S2, St("Running")), cmd, "Ack", "loop")
      [] cmd.type = "SendTrace" ->
            LET S1 == [S EXCEPT !.trace = @ \o TraceBlock(cmd.arg)]
            IN  Reply(set_state(S1, St("Running")), cmd, "Ack", "loop")
      [] OTHER -> S

\* command_rest whose SendTrace arm installs the messages it was given as
\* the trace
command_rest_replace(S, cmd) ==
    CASE cmd.type = "Terminate" ->
            Reply(set_state(S, Completed(FALSE)), cmd, "Ack", "loop")
      [] cmd.type = "StopCurrentTask" ->
            Reply(set_state(S, St("Paused")), cmd, "Ack", "loop")
      [] cmd.type = "SendUserInput" ->
            LET S1 == emit_event(S,
                        Ev("UserInput", NoPub, NoPub, NoTok, "", ""))
                S2 == [S1 EXCEPT !.trace = Append(@, UserMsg("input"))]
            IN  Reply(set_state(S2, St("Running")), cmd, "Ack", "loop")
      [] cmd.type = "SendTrace" ->
            LET S1 == [S EXCEPT !.trace = TraceBlock(cmd.arg)]
            IN  Reply(set_state(S1, St("Running")), cmd, "Ack", "loop")
      [] OTHER -> S

\* AgentCore::handle_command, the arms that start with CancelTask, from
\* the block handed to .and() on
command_rest(S, cmd) ==
    CASE cmd.type = "Terminate" ->
            Reply(set_state(S, Completed(FALSE)), cmd, "Ack", "loop")
      [] cmd.type = "StopCurrentTask" ->
            Reply(set_state(S, St("Paused")), cmd, "Ack", "loop")
      [] cmd.type = "SendUserInput" ->
            LET S1 == emit_event(S,
                        Ev("UserInput", NoPub, NoPub, NoTok, "", ""))
                S2 == [S1 EXCEPT !.trace = Append(@, UserMsg("input"))]
            IN  Reply(set_state(S2, St("Running")), cmd, "Ack", "loop")
      [] cmd.type = "SendTrace" ->
            LET S1 == [S EXCEPT !.trace = @ \o TraceBlock(cmd.arg)]
            IN  Reply(set_state(S1, St("Running")), cmd, "Ack", "loop")
      [] OTHER -> S

\* a tool task that has not returned yet runs in parallel with the loop
LiveTools(S) == {k \in DOMAIN S.tools : S.tools[k].o # "done"}

\* a task that takes the first PermissionResponseReceived it receives,
\* whatever id it carries
deliver_permission_any_id(tl, req, resp) ==
    [k \in DOMAIN tl |->
        IF tl[k].i = "waitperm" /\ tl[k].presp = ""
        THEN [tl[k] EXCEPT !.presp = resp] ELSE tl[k]]

\* a PermissionResponseReceived reaches the receiver of every tool task;
\* a task keeps the first one that carries the id of its request
deliver_permission(tl, req, resp) ==
    [k \in DOMAIN tl |->
        IF tl[k].i = "waitperm" /\ tl[k].req = req /\ tl[k].presp = ""
        THEN [tl[k] EXCEPT !.presp = resp] ELSE tl[k]]

\* a SwitchToolCallMethod that reaches the brain tasks already spawned
switch_tool_call_method_shared(S, cmd) ==
    LET S1 == IF cmd.arg # ""
              THEN [S EXCEPT !.method = cmd.arg,
                             !.context = [t \in DOMAIN @ |-> cmd.arg]]
              ELSE S
    IN  Reply(S1, cmd, "Method", "loop")

\* AgentCore::handle_command, the SwitchToolCallMethod arm: the argument is
\* "" for None
switch_tool_call_method(S, cmd) ==
    LET S1 == IF cmd.arg # "" THEN [S EXCEPT !.method = cmd.arg] ELSE S
    IN  Reply(S1, cmd, "Method", "loop")

\* AgentCore::handle_command
handle_command(S, cmd) ==
    CASE cmd.type \in CancellingCommands ->
            LET S1 == handle_event(S, IEv("CancelTask"))
            IN  IF LiveTools(S) # {}
                THEN [S1 EXCEPT !.pend =
                        [k |-> "cmd", tok |-> NoTok, cmd |-> cmd,
                         pos |-> Len(S.events)]]
                ELSE command_rest(S1, cmd)
      [] cmd.type = "Droping" ->
            Reply([S EXCEPT !.rx.closed = S.rx.created], cmd, "Ack", "loop")
      [] cmd.type = "GetState" -> Reply(S, cmd, "State", "loop")
      [] cmd.type = "Sudo" ->
            LET S1 == [S EXCEPT !.claims.sudo =
                        CASE cmd.arg = "on" -> TRUE
                          [] cmd.arg = "off" -> FALSE
                          [] OTHER -> @]
            IN  Reply(S1, cmd,
                      IF S1.claims.sudo THEN "SudoOn" ELSE "SudoOff", "loop")
      [] cmd.type = "UserQueryResponse" ->
            Reply([S EXCEPT !.ibus =
                        Append(@, IEv("UserResponseReceived"))],
                  cmd, "Ack", "loop")
      [] cmd.type = "UserPermissionResponse" ->
            Reply([S EXCEPT
                     !.ibus = Append(@,
                        [IEv("PermissionResponseReceived")
                            EXCEPT !.req = cmd.req, !.resp = cmd.arg]),
                     !.tools = deliver_permission(@, cmd.req, cmd.arg)],
                  cmd, "Ack", "loop")
      [] cmd.type = "SwitchToolCallMethod" -> switch_tool_call_method(S, cmd)
      [] cmd.type = "WaitTurn" -> handle_wait_turn(S, cmd)
      [] OTHER -> S

\* ---------------------------------------------------------- the main loop
LoopFrame ==
    UNCHANGED <<nextReq, sent, sessions, loading, session, requests>>

Looping == returned = "no" /\ state.name # "Starting" /\ pend.k = "none"

\* AgentCore::start, before the loop
Start ==
    /\ returned = "no" /\ state.name = "Starting"
    /\ Install(handle_event(Cur, IEv("AgentInitialized")))
    /\ UNCHANGED <<cmdq, returned>>
    /\ LoopFrame

\* the loop: Paused without a command channel becomes Completed{true},
\* and the same iteration returns
LoopPausedNoIo ==
    /\ Looping
    /\ state.name = "Paused" /\ ~has_io(Cur)
    /\ Install(set_state(Cur, Completed(TRUE)))
    /\ returned' = "ok_true"
    /\ UNCHANGED cmdq
    /\ LoopFrame

\* the loop: a terminal state makes start() return
LoopReturn ==
    /\ Looping
    /\ IsTerminal(state)
    /\ returned' = (IF state.name = "Failed" THEN "err"
                    ELSE IF state.success THEN "ok_true" ELSE "ok_false")
    /\ UNCHANGED <<state, trace, claims, cancelled, nextTok, brains, phases,
                   tools, cmdq, rx, hasTx, events, ibus, replies, watchers,
                   pend, method, context>>
    /\ LoopFrame

\* the loop in Running: try_recv finds a command
LoopRunningCommand ==
    /\ Looping
    /\ state.name = "Running"
    /\ rx.created /\ cmdq # <<>>
    /\ Install(handle_command(Cur, Head(cmdq)))
    /\ cmdq' = Tail(cmdq)
    /\ UNCHANGED returned
    /\ LoopFrame

\* a loop in Running that starts thinking without looking at the queue
LoopThinkingStart_unchecked(maxTurns) ==
    /\ Looping
    /\ state.name = "Running"
    /\ Cardinality(DOMAIN brains) < maxTurns
    /\ Install(handle_event(Cur, IEv("ThinkingStart")))
    /\ UNCHANGED <<cmdq, returned>>
    /\ LoopFrame

\* the loop in Running: no command, ThinkingStart
LoopThinkingStart(maxTurns) ==
    /\ Looping
    /\ state.name = "Running"
    /\ ~(rx.created /\ cmdq # <<>>)
    /\ Cardinality(DOMAIN brains) < maxTurns
    /\ Install(handle_event(Cur, IEv("ThinkingStart")))
    /\ UNCHANGED <<cmdq, returned>>
    /\ LoopFrame

\* a loop that reaches its select in a terminal state too
Selecting_terminal_too ==
    /\ Looping
    /\ ~(state.name = "Paused" /\ ~has_io(Cur))

\* the loop reaches its select: no terminal state, not Running
Selecting ==
    /\ Looping
    /\ state.name \in {"Processing", "Paused"}
    /\ ~(state.name = "Paused" /\ ~has_io(Cur))

\* the loop's select: the command branch
LoopSelectCommand ==
    /\ Selecting
    /\ rx.created /\ cmdq # <<>>
    /\ Install(handle_command(Cur, Head(cmdq)))
    /\ cmdq' = Tail(cmdq)
    /\ UNCHANGED returned
    /\ LoopFrame

\* the loop's select: the internal event branch
LoopSelectInternal ==
    /\ Selecting
    /\ ibus # <<>>
    /\ Install(handle_event([Cur EXCEPT !.ibus = Tail(@)], Head(ibus)))
    /\ UNCHANGED <<cmdq, returned>>
    /\ LoopFrame

\* the main loop task runs the set_state that ends spawn_tools
LoopSpawnToolsSetState ==
    /\ returned = "no" /\ pend.k = "tools"
    /\ Install(spawn_tools_set_state(Cur))
    /\ UNCHANGED <<cmdq, returned>>
    /\ LoopFrame

\* the main loop task runs the rest of a cancelling command's handler
LoopCommandRest ==
    /\ returned = "no" /\ pend.k = "cmd"
    /\ Install(command_rest([Cur EXCEPT !.pend = NoPend], pend.cmd))
    /\ UNCHANGED <<cmdq, returned>>
    /\ LoopFrame

\* ------------------------------------------------------------ controllers
CtlFrame ==
    UNCHANGED <<state, trace, claims, cancelled, nextTok, brains, phases,
                tools, hasTx, events, ibus, replies, watchers, returned,
                nextReq, pend, sessions, loading, session, requests, method,
                context>>

\* a send that succeeds on a closed channel
Send_ignores_close(C, maxCmds) ==
    /\ sent < maxCmds
    /\ returned = "no"
    /\ rx.created /\ rx.ctl > 0
    /\ \E c \in C :
          /\ c.type = "UserPermissionResponse" =>
                c.req \in 0..(nextReq - 1)
          /\ cmdq' = Append(cmdq, [c EXCEPT !.id = sent + 1])
    /\ sent' = sent + 1
    /\ UNCHANGED rx
    /\ CtlFrame

\* AgentController::send / wait_turn: txcmd.send of a command of the set C;
\* on a closed channel the send fails with SessionClosed and rx.refused
\* counts it
Send(C, maxCmds) ==
    /\ sent < maxCmds
    /\ returned = "no"
    /\ rx.created /\ rx.ctl > 0
    /\ IF is_closed(rx)
       THEN /\ cmdq' = cmdq
            /\ rx' = [rx EXCEPT !.refused = @ + 1]
       ELSE /\ \E c \in C :
                  /\ c.type = "UserPermissionResponse" =>
                        c.req \in 0..(nextReq - 1)
                  /\ cmdq' = Append(cmdq, [c EXCEPT !.id = sent + 1])
            /\ rx' = rx
    /\ sent' = sent + 1
    /\ CtlFrame

\* AgentController::clone
CloneController ==
    /\ rx.ctl > 0 /\ rx.ctl < MaxCtl
    /\ rx' = [rx EXCEPT !.ctl = @ + 1]
    /\ UNCHANGED <<cmdq, sent>>
    /\ CtlFrame

\* an AgentController is dropped
DropController ==
    /\ rx.ctl > 0
    /\ rx' = [rx EXCEPT !.ctl = @ - 1]
    /\ UNCHANGED <<cmdq, sent>>
    /\ CtlFrame

\* ---------------------------------------------------------- the brain task
TaskFrame ==
    UNCHANGED <<state, claims, cancelled, nextTok, cmdq, rx, hasTx, replies,
                watchers, returned, sent, pend, sessions, loading, session,
                requests, method, context>>

\* what Brain::next_step can return
Decision(kind, calls, flow, usage) ==
    [kind |-> kind, calls |-> calls, flow |-> flow, usage |-> usage]

\* the system message CoderBrain::next_step renders
SystemMsg == Msg("system", {}, "", "", "brain", NoTok)

\* CoderBrain::next_step: the messages of the request, a clone of the
\* trace with the system prompt inserted at its head
next_step_request(tr) == <<SystemMsg>> \o tr

\* a brain task that inserts the system prompt into the shared trace
BrainPublish_shared_prompt(D) ==
    \E t \in DOMAIN brains : \E d \in D :
        /\ brains[t] = "thinking"
        /\ brains' = [brains EXCEPT ![t] = "published"]
        /\ trace' = next_step_request(trace)
        /\ ibus' = Append(ibus,
                [IEv("BrainResult") EXCEPT !.d = d, !.tok = t])
        /\ UNCHANGED <<phases, tools, events, nextReq>>
        /\ TaskFrame

\* the task of spawn_next_step: next_step returned, the select takes that
\* branch and sends BrainResult
BrainPublish(D) ==
    \E t \in DOMAIN brains : \E d \in D :
        /\ brains[t] = "thinking"
        /\ brains' = [brains EXCEPT ![t] = "published"]
        /\ ibus' = Append(ibus,
                [IEv("BrainResult") EXCEPT !.d = d, !.tok = t])
        /\ UNCHANGED <<trace, phases, tools, events, nextReq>>
        /\ TaskFrame

\* the task of spawn_next_step: the select takes the cancelled branch
BrainCancelled ==
    \E t \in DOMAIN brains :
        /\ brains[t] = "thinking"
        /\ t \in cancelled
        /\ brains' = [brains EXCEPT ![t] = "exited"]
        /\ UNCHANGED <<trace, phases, tools, events, ibus, nextReq>>
        /\ TaskFrame

\* ---------------------------------------------------------- the tool tasks
ToolFrame ==
    UNCHANGED <<state, claims, cancelled, nextTok, brains, cmdq, rx, hasTx,
                replies, watchers, returned, sent, pend, sessions, loading,
                session, requests, method, context>>

CallOf(k) == phases[k[1]].calls[k[2]]

\* tx.send on the clone of socket.tx_event a tools phase was spawned with
tool_emit(evs, k, e) ==
    IF phases[k[1]].ptx THEN Append(evs, e) ELSE evs

\* AgentCore::tool_exist
tool_exist(call) ==
    IF call.args = "bad" THEN "ParseError"
    ELSE IF call.name \notin ToolNames THEN "NotFound"
    ELSE "Ok"

\* a task that spawns the execution before it sends ToolCallStarted, and
\* then never sends it
ToolBegin_no_start(k) ==
    /\ tools[k].o = "new"
    /\ LET r == tool_exist(CallOf(k))
       IN  IF r # "Ok"
           THEN /\ events' = tool_emit(events, k,
                        Ev("ToolCallCompleted", NoPub, NoPub, k[1],
                           CallOf(k).id, r))
                /\ tools' = [tools EXCEPT ![k].o = "done", ![k].res = r]
           ELSE /\ events' = events
                /\ tools' = [tools EXCEPT ![k].o = "wait", ![k].i = "check"]
    /\ UNCHANGED <<trace, phases, ibus, nextReq>>
    /\ ToolFrame

\* spawn_tool_static up to the select: tool_exist, then either the
\* ToolCallCompleted of a call that does not exist, or ToolCallStarted and
\* the spawn of the execution task
ToolBegin(k) ==
    /\ tools[k].o = "new"
    /\ LET r == tool_exist(CallOf(k))
       IN  IF r # "Ok"
           THEN /\ events' = tool_emit(events, k,
                        Ev("ToolCallCompleted", NoPub, NoPub, k[1],
                           CallOf(k).id, r))
                /\ tools' = [tools EXCEPT ![k].o = "done", ![k].res = r]
           ELSE /\ events' = tool_emit(events, k,
                        Ev("ToolCallStarted", NoPub, NoPub, k[1],
                           CallOf(k).id, ""))
                /\ tools' = [tools EXCEPT ![k].o = "wait", ![k].i = "check"]
    /\ UNCHANGED <<trace, phases, ibus, nextReq>>
    /\ ToolFrame

ReadOnly(caps) == caps = <<>> \/ caps = <<"Read">>

\* can_run that forgets the claims
can_run_read_only(call, cl) == ReadOnly(capabilities(call.name))

\* can_run that forgets the read-only shortcut
can_run_claims_only(call, cl) == is_permitted(cl, call.name, call.args)

\* spawn_tool_exec: the first can_run, for the claims cl read at that instant
can_run(call, cl) ==
    \/ ReadOnly(capabilities(call.name))
    \/ is_permitted(cl, call.name, call.args)

\* spawn_tool_exec: || does not read the claims of a read-only tool
consults_claims(call) == ~ReadOnly(capabilities(call.name))

\* what execute_preview_json can return
Previews == {"None", "Success", "Error"}

\* a permission gate that sends its request before it looks at the preview
ToolCheckPermission_asks_first(k) ==
    /\ tools[k].i = "check"
    /\ LET T == [tools[k] EXCEPT !.consulted = consults_claims(CallOf(k)),
                                 !.sudoAtCheck = claims.sudo]
       IN  IF can_run(CallOf(k), claims)
           THEN /\ tools' = [tools EXCEPT ![k] = [T EXCEPT !.i = "exec"]]
                /\ UNCHANGED <<events, nextReq>>
           ELSE IF ~phases[k[1]].ptx
           THEN /\ tools' = [tools EXCEPT ![k] =
                        [T EXCEPT !.i = "done", !.ires = "Denied"]]
                /\ UNCHANGED <<events, nextReq>>
           ELSE \E preview \in Previews :
                  IF preview = "Error"
                  THEN /\ events' = Append(events,
                            Ev("PermissionRequired", NoPub, NoPub, k[1],
                               CallOf(k).id, ""))
                       /\ nextReq' = nextReq + 1
                       /\ tools' = [tools EXCEPT ![k] =
                            [T EXCEPT !.i = "done", !.req = nextReq,
                                      !.ires = "PreviewError"]]
                  ELSE /\ events' = Append(events,
                            Ev("PermissionRequired", NoPub, NoPub, k[1],
                               CallOf(k).id, ""))
                       /\ nextReq' = nextReq + 1
                       /\ tools' = [tools EXCEPT ![k] =
                            [T EXCEPT !.i = "waitperm", !.req = nextReq]]
    /\ UNCHANGED <<trace, phases, ibus>>
    /\ ToolFrame

\* spawn_tool_exec up to the execution: the permission check and, when it
\* fails, request_permission_if_needed up to its wait loop
ToolCheckPermission(k) ==
    /\ tools[k].i = "check"
    /\ LET T == [tools[k] EXCEPT !.consulted = consults_claims(CallOf(k)),
                                 !.sudoAtCheck = claims.sudo]
       IN  IF can_run(CallOf(k), claims)
           THEN /\ tools' = [tools EXCEPT ![k] = [T EXCEPT !.i = "exec"]]
                /\ UNCHANGED <<events, nextReq>>
           ELSE IF ~phases[k[1]].ptx
           THEN /\ tools' = [tools EXCEPT ![k] =
                        [T EXCEPT !.i = "done", !.ires = "Denied"]]
                /\ UNCHANGED <<events, nextReq>>
           ELSE \E preview \in Previews :
                  IF preview = "Error"
                  THEN /\ tools' = [tools EXCEPT ![k] =
                            [T EXCEPT !.i = "done",
                                      !.ires = "PreviewError"]]
                       /\ UNCHANGED <<events, nextReq>>
                  ELSE /\ events' = Append(events,
                            Ev("PermissionRequired", NoPub, NoPub, k[1],
                               CallOf(k).id, ""))
                       /\ nextReq' = nextReq + 1
                       /\ tools' = [tools EXCEPT ![k] =
                            [T EXCEPT !.i = "waitperm", !.req = nextReq]]
    /\ UNCHANGED <<trace, phases, ibus>>
    /\ ToolFrame

\* a task for which every answer but Deny is a permission
ToolPermissionResponse_deny_only(k) ==
    /\ tools[k].i = "waitperm" /\ tools[k].presp # ""
    /\ tools' = [tools EXCEPT ![k] =
            IF tools[k].presp # "Deny"
            THEN [@ EXCEPT !.i = "exec"]
            ELSE [@ EXCEPT !.i = "done", !.ires = "Denied"]]
    /\ UNCHANGED <<trace, phases, events, ibus, nextReq>>
    /\ ToolFrame

\* request_permission_if_needed: the matching PermissionResponseReceived
ToolPermissionResponse(k) ==
    /\ tools[k].i = "waitperm" /\ tools[k].presp # ""
    /\ tools' = [tools EXCEPT ![k] =
            IF tools[k].presp \in {"Allow", "AllowAlways"}
            THEN [@ EXCEPT !.i = "exec"]
            ELSE [@ EXCEPT !.i = "done", !.ires = "Denied"]]
    /\ UNCHANGED <<trace, phases, events, ibus, nextReq>>
    /\ ToolFrame

\* request_permission_if_needed: cancelled while waiting, Ok(false)
ToolPermissionCancelled(k) ==
    /\ tools[k].i = "waitperm" /\ k[1] \in cancelled
    /\ tools' = [tools EXCEPT ![k].i = "done", ![k].ires = "Denied"]
    /\ UNCHANGED <<trace, phases, events, ibus, nextReq>>
    /\ ToolFrame

\* spawn_tool_exec: execute_json returns
ToolExecute(k) ==
    /\ tools[k].i = "exec"
    /\ \E r \in {"Success", "Error"} :
          tools' = [tools EXCEPT ![k].i = "done", ![k].ires = r,
                                 ![k].executed = @ + 1]
    /\ UNCHANGED <<trace, phases, events, ibus, nextReq>>
    /\ ToolFrame

\* spawn_tool_exec: the select takes the cancelled branch
ToolExecuteCancelled(k) ==
    /\ tools[k].i = "exec" /\ k[1] \in cancelled
    /\ tools' = [tools EXCEPT ![k].i = "done", ![k].ires = "Cancelled"]
    /\ UNCHANGED <<trace, phases, events, ibus, nextReq>>
    /\ ToolFrame

\* a task that keeps its result for the event and leaves the trace alone
tool_push_event_only(k, result) ==
    /\ trace' = trace
    /\ tools' = [tools EXCEPT ![k].o = "emit", ![k].res = result]

\* spawn_tool_static from the select to the push: the result the select
\* yielded is local to the task until it is pushed to the trace
tool_push(k, result) ==
    /\ trace' = Append(trace,
            Msg("tool", {}, CallOf(k).id, result, "tool", k[1]))
    /\ tools' = [tools EXCEPT ![k].o = "emit", ![k].res = result]

\* spawn_tool_static: the select takes the result of the execution task
ToolJoin(k) ==
    /\ tools[k].o = "wait" /\ tools[k].i = "done"
    /\ tool_push(k, tools[k].ires)
    /\ UNCHANGED <<phases, events, ibus, nextReq>>
    /\ ToolFrame

\* a cancelled branch that returns without ToolCallCompleted
ToolCancelled_silent(k) ==
    /\ tools[k].o = "wait" /\ k[1] \in cancelled
    /\ trace' = Append(trace,
            Msg("tool", {}, CallOf(k).id, "Cancelled", "tool", k[1]))
    /\ tools' = [tools EXCEPT ![k].o = "done", ![k].res = "Cancelled"]
    /\ UNCHANGED <<phases, events, ibus, nextReq>>
    /\ ToolFrame

\* spawn_tool_static: the select takes the cancelled branch
ToolCancelled(k) ==
    /\ tools[k].o = "wait" /\ k[1] \in cancelled
    /\ tool_push(k, "Cancelled")
    /\ UNCHANGED <<phases, events, ibus, nextReq>>
    /\ ToolFrame

\* spawn_tool_static: ToolCallCompleted, and the task returns
ToolCompleted(k) ==
    /\ tools[k].o = "emit"
    /\ events' = tool_emit(events, k,
            Ev("ToolCallCompleted", NoPub, NoPub, k[1], CallOf(k).id,
               tools[k].res))
    /\ tools' = [tools EXCEPT ![k].o = "done"]
    /\ UNCHANGED <<trace, phases, ibus, nextReq>>
    /\ ToolFrame

TasksOf(t) == {k \in DOMAIN tools : k[1] = t}

\* an aggregator for which every result other than Success is a denial
ToolsCompleted_errors_deny ==
    \E t \in DOMAIN phases :
        /\ phases[t].agg = "wait"
        /\ \A k \in TasksOf(t) : tools[k].o = "done"
        /\ phases' = [phases EXCEPT ![t].agg = "published"]
        /\ ibus' = Append(ibus, [IEv("ToolsCompleted") EXCEPT
                !.tok = t,
                !.any_denied = \E k \in TasksOf(t) : tools[k].res # "Success"])
        /\ UNCHANGED <<trace, tools, events, nextReq>>
        /\ ToolFrame

\* the aggregator task of spawn_tools: every handle has been awaited
ToolsCompleted ==
    \E t \in DOMAIN phases :
        /\ phases[t].agg = "wait"
        /\ \A k \in TasksOf(t) : tools[k].o = "done"
        /\ phases' = [phases EXCEPT ![t].agg = "published"]
        /\ ibus' = Append(ibus, [IEv("ToolsCompleted") EXCEPT
                !.tok = t,
                !.any_denied = \E k \in TasksOf(t) : tools[k].res = "Denied"])
        /\ UNCHANGED <<trace, tools, events, nextReq>>
        /\ ToolFrame

\* the aggregator task of spawn_tools: the cancelled branch
ToolsCancelled ==
    \E t \in DOMAIN phases :
        /\ phases[t].agg = "wait"
        /\ t \in cancelled
        /\ phases' = [phases EXCEPT ![t].agg = "exited"]
        /\ UNCHANGED <<trace, tools, events, ibus, nextReq>>
        /\ ToolFrame

\* ------------------------------------------------- the WaitTurn watcher task
Decisive(e) ==
    /\ e.type = "StatusChanged"
    /\ e.new.name \in {"Paused", "Completed", "Failed", "Cancelled"}

\* the first event after position pos that ends the watcher's loop, or 0
FirstDecisive(evs, pos) ==
    LET I == {n \in (pos + 1)..Len(evs) : Decisive(evs[n])}
    IN  IF I = {} THEN 0 ELSE CHOOSE n \in I : \A m \in I : n <= m

\* a watcher that breaks out of its loop on the first StatusChanged of any
\* kind
WatcherReply_any_status ==
    \E w \in watchers :
        \E n \in (w.pos + 1)..Len(events) :
            /\ events[n].type = "StatusChanged"
            /\ \A m \in (w.pos + 1)..(n - 1) :
                  events[m].type # "StatusChanged"
            /\ replies' = replies \cup
                  {Response(w.id, "WaitTurn",
                            IF events[n].new.name = "Paused"
                            THEN "Ack" ELSE "Error",
                            state.name, "watcher", w.pos)}
            /\ watchers' = watchers \ {w}
            /\ UNCHANGED <<state, trace, claims, cancelled, nextTok, brains,
                           phases, tools, cmdq, rx, hasTx, events, ibus,
                           returned, nextReq, sent, pend, sessions,
                           loading, session, requests, method, context>>

\* the task spawned by handle_wait_turn receives the event that ends its
\* loop and sends its response
WatcherReply ==
    \E w \in watchers :
        LET n == FirstDecisive(events, w.pos)
        IN  /\ n # 0
            /\ replies' = replies \cup
                  {Response(w.id, "WaitTurn",
                            IF events[n].new.name = "Paused"
                            THEN "Ack" ELSE "Error",
                            state.name, "watcher", w.pos)}
            /\ watchers' = watchers \ {w}
            /\ UNCHANGED <<state, trace, claims, cancelled, nextTok, brains,
                           phases, tools, cmdq, rx, hasTx, events, ibus,
                           returned, nextReq, sent, pend, sessions,
                           loading, session, requests, method, context>>

\* ------------------------------------------------------ the HTTP sessions
\* the session ids the clients use
Ids == {"a", "b", "c"}

Requests == 1..MaxRequests

\* a handle_request call: where it is, the ids of the WaitTurn and of the
\* SendTrace it sent, and whether the task spawned by the drop of an
\* ephemeral RequestLifecycle has still to send its Terminate
Request(pc, wt, st, term) == [pc |-> pc, wt |-> wt, st |-> st, term |-> term]

\* SessionManager::new, AgentSession::new
HttpInit ==
    /\ sessions = {}
    /\ loading = [id \in Ids |-> 0]
    /\ session = [ephemeral |-> FALSE, controller |-> 0]
    /\ requests = [r \in Requests |-> Request("idle", 0, 0, FALSE)]

AgentFrame ==
    UNCHANGED <<state, trace, claims, cancelled, nextTok, brains, phases,
                tools, cmdq, rx, hasTx, events, ibus, replies, watchers,
                returned, nextReq, sent, pend, method, context>>

ManagerFrame == AgentFrame /\ UNCHANGED <<session, requests>>

\* SessionManager::create_new_session, which holds the lock on the map from
\* its checks to its insert
create_new_session(id) ==
    /\ id \notin sessions
    /\ Cardinality(sessions) < MaxSessions
    /\ sessions' = sessions \cup {id}
    /\ UNCHANGED loading
    /\ ManagerFrame

\* SessionManager::get_session, first half: the id is not in the map, the
\* lock is released and the session is found on disk
get_session_load(id) ==
    /\ id \notin sessions
    /\ loading[id] < MaxLoads
    /\ loading' = [loading EXCEPT ![id] = @ + 1]
    /\ UNCHANGED sessions
    /\ ManagerFrame

\* SessionManager::get_session, second half: create_session has built the
\* agent, the lock is taken again and the session is inserted
get_session_store(id) ==
    /\ loading[id] > 0
    /\ loading' = [loading EXCEPT ![id] = @ - 1]
    /\ sessions' = sessions \cup {id}
    /\ ManagerFrame

\* SessionManager::get_session, second half when create_session fails
get_session_fail(id) ==
    /\ loading[id] > 0
    /\ loading' = [loading EXCEPT ![id] = @ - 1]
    /\ UNCHANGED sessions
    /\ ManagerFrame

\* the agent task spawned by create_session: run() has returned and the
\* task removes its id from the map
cleanup(id) ==
    /\ id \in sessions
    /\ sessions' = sessions \ {id}
    /\ UNCHANGED loading
    /\ ManagerFrame

SessionFrame ==
    UNCHANGED <<state, trace, claims, cancelled, nextTok, brains, phases,
                tools, rx, hasTx, events, ibus, replies, watchers, returned,
                nextReq, pend, sessions, loading, method, context>>

\* the controller of the session can still reach the agent: run() has not
\* returned and dropped the receiver
Reachable == returned = "no" /\ ~is_closed(rx)

\* the txcmd.send of the session's controller
SessionSend(c) ==
    /\ cmdq' = Append(cmdq, [c EXCEPT !.id = sent + 1])
    /\ sent' = sent + 1

Answered(id) == \E r \in replies : r.id = id

Queued(id) == \E n \in 1..Len(cmdq) : cmdq[n].id = id

\* the guard is dropped with the error handle_request returns
Fail(r) ==
    /\ requests' = [requests EXCEPT ![r].pc = "failed"]
    /\ session' = [session EXCEPT !.controller = 0]

\* a handle_request that does not wait for the controller
handle_request_lock_free(r) ==
    /\ requests[r].pc = "idle"
    /\ session' = [session EXCEPT !.controller = r]
    /\ requests' = [requests EXCEPT ![r].pc = "locked"]
    /\ UNCHANGED <<cmdq, sent>>
    /\ SessionFrame

\* AgentSession::handle_request: controller.clone().lock_owned()
handle_request_lock(r) ==
    /\ requests[r].pc = "idle"
    /\ session.controller = 0
    /\ session' = [session EXCEPT !.controller = r]
    /\ requests' = [requests EXCEPT ![r].pc = "locked"]
    /\ UNCHANGED <<cmdq, sent>>
    /\ SessionFrame

\* AgentSession::handle_request: the send of wait_turn
handle_request_wait_turn(r) ==
    /\ requests[r].pc = "locked"
    /\ IF Reachable
       THEN /\ SessionSend(Cmd("WaitTurn", "", 0))
            /\ requests' = [requests EXCEPT ![r].pc = "wait_turn",
                                            ![r].wt = sent + 1]
            /\ UNCHANGED session
       ELSE /\ Fail(r)
            /\ UNCHANGED <<cmdq, sent>>
    /\ SessionFrame

\* AgentSession::handle_request: wait_turn returns, Ok on an Ack, an error
\* on an Error or when the agent dropped the command unanswered
handle_request_turn(r) ==
    /\ requests[r].pc = "wait_turn"
    /\ \/ /\ \E a \in replies : a.id = requests[r].wt /\ a.resp = "Ack"
          /\ requests' = [requests EXCEPT ![r].pc = "turn"]
          /\ UNCHANGED session
       \/ /\ \/ \E a \in replies : a.id = requests[r].wt /\ a.resp # "Ack"
             \/ returned # "no" /\ Queued(requests[r].wt)
          /\ Fail(r)
    /\ UNCHANGED <<cmdq, sent>>
    /\ SessionFrame

\* AgentSession::handle_request: the send of send_trace
handle_request_send_trace(r) ==
    /\ requests[r].pc = "turn"
    /\ IF Reachable
       THEN /\ SessionSend(Cmd("SendTrace", "user", 0))
            /\ requests' = [requests EXCEPT ![r].pc = "send_trace",
                                            ![r].st = sent + 1]
            /\ UNCHANGED session
       ELSE /\ Fail(r)
            /\ UNCHANGED <<cmdq, sent>>
    /\ SessionFrame

\* AgentSession::handle_request: send_trace was answered and the guard moves
\* into the RequestLifecycle
handle_request_done(r) ==
    /\ requests[r].pc = "send_trace"
    /\ Answered(requests[r].st)
    /\ requests' = [requests EXCEPT ![r].pc = "holding"]
    /\ UNCHANGED <<session, cmdq, sent>>
    /\ SessionFrame

\* AgentSession::handle_request: send_trace got no answer within the second
\* AgentController::send waits, or the agent dropped the command
handle_request_timeout(r) ==
    /\ requests[r].pc = "send_trace"
    /\ ~Answered(requests[r].st)
    /\ Fail(r)
    /\ UNCHANGED <<cmdq, sent>>
    /\ SessionFrame

\* Drop for RequestLifecycle: the guard is released; an ephemeral request
\* spawns a task that terminates the agent
RequestLifecycle_drop(r) ==
    /\ requests[r].pc = "holding"
    /\ requests' = [requests EXCEPT ![r].pc = "dropped",
                                    ![r].term = session.ephemeral]
    /\ session' = [session EXCEPT !.controller = 0]
    /\ UNCHANGED <<cmdq, sent>>
    /\ SessionFrame

\* the task spawned by the drop of an ephemeral RequestLifecycle
lifecycle_terminate(r) ==
    /\ requests[r].term
    /\ requests' = [requests EXCEPT ![r].term = FALSE]
    /\ IF Reachable
       THEN SessionSend(Cmd("Terminate", "", 0))
       ELSE UNCHANGED <<cmdq, sent>>
    /\ UNCHANGED session
    /\ SessionFrame

\* the requests of the HTTP handlers on one session
RequestStep ==
    \E r \in Requests :
        \/ handle_request_lock(r)
        \/ handle_request_wait_turn(r)
        \/ handle_request_turn(r)
        \/ handle_request_send_trace(r)
        \/ handle_request_done(r)
        \/ handle_request_timeout(r)
        \/ RequestLifecycle_drop(r)
        \/ lifecycle_terminate(r)

\* ------------------------------------------------------- the specification
\* AgentCore::new and AgentBuilder::build, then controller() and watch()
\* called or not before run
AgentInit(Traces, Claims, Sockets) ==
    /\ state = St("Starting")
    /\ trace \in Traces
    /\ claims \in Claims
    /\ cancelled = {}
    /\ nextTok = 1
    /\ brains = <<>>
    /\ phases = <<>>
    /\ tools = <<>>
    /\ cmdq = <<>>
    /\ \E s \in Sockets :
          /\ rx = [created |-> s[1], closed |-> FALSE, refused |-> 0,
                   ctl |-> IF s[1] THEN 1 ELSE 0]
          /\ hasTx = s[2]
    /\ events = <<>>
    /\ ibus = <<>>
    /\ replies = {}
    /\ watchers = {}
    /\ returned = "no"
    /\ nextReq = 1
    /\ sent = 0
    /\ pend = NoPend
    /\ method = "FunctionCall"
    /\ context = <<>>

InitWith(Traces, Claims, Sockets) ==
    AgentInit(Traces, Claims, Sockets) /\ HttpInit

\* the main loop task and the brain task, for a brain that answers from D
LoopStep(D, maxTurns) ==
    \/ Start
    \/ LoopPausedNoIo
    \/ LoopReturn
    \/ LoopRunningCommand
    \/ LoopThinkingStart(maxTurns)
    \/ LoopSelectCommand
    \/ LoopSelectInternal
    \/ BrainPublish(D)
    \/ BrainCancelled

\* the tool tasks and the aggregator task
ToolStep ==
    \/ LoopSpawnToolsSetState
    \/ LoopCommandRest
    \/ \E k \in DOMAIN tools : ToolBegin(k)
    \/ \E k \in DOMAIN tools : ToolCheckPermission(k)
    \/ \E k \in DOMAIN tools : ToolPermissionCancelled(k)
    \/ \E k \in DOMAIN tools : ToolExecute(k)
    \/ \E k \in DOMAIN tools : ToolExecuteCancelled(k)
    \/ \E k \in DOMAIN tools : ToolJoin(k)
    \/ \E k \in DOMAIN tools : ToolCancelled(k)
    \/ \E k \in DOMAIN tools : ToolCompleted(k)
    \/ ToolsCompleted
    \/ ToolsCancelled

\* a tool task receives the answer to its permission request
PermissionStep == \E k \in DOMAIN tools : ToolPermissionResponse(k)

\* the controller handles
ControllerStep ==
    \/ CloneController
    \/ DropController

\* ------------- the brain's answers and the controllers' commands explored
CallId(n) == "c" \o ToString(n)

\* n calls with distinct ids: the first of any kind of Kinds, the others
\* calls of the tool write
CallsOfLen(n, Kinds) ==
    {[m \in 1..n |-> IF m = 1 THEN Call(CallId(m), c[1], c[2])
                              ELSE Call(CallId(m), "write", "p")] :
        c \in Kinds}

\* the flow a brain sets next to its tool calls: AgentContinue when the
\* first call is a listing, AgentPause otherwise
FlowOf(calls) ==
    IF calls[1].name = "ls" THEN "AgentContinue" ELSE "AgentPause"

ToolDecisions(Kinds, lens) ==
    {Decision("assistant", calls, FlowOf(calls), FALSE) :
        calls \in UNION {CallsOfLen(n, Kinds) : n \in lens}}

PlainDecisions ==
    {Decision("error", <<>>, "AgentPause", FALSE),
     Decision("assistant", <<>>, "AgentPause", FALSE),
     Decision("assistant", <<>>, "AgentContinue", TRUE)}

InitTraces == {<<>>, <<UserMsg("init")>>}

NoClaims == [sudo |-> FALSE, grants |-> {}, always |-> {}]

AllSockets == BOOLEAN \X BOOLEAN

SomeClaims ==
    {NoClaims, [NoClaims EXCEPT !.sudo = TRUE],
     [NoClaims EXCEPT !.grants = {<<"write", "p">>}]}

\* Spec: the life of the agent, with one tool call a turn and one command
LifeCommands ==
    {Cmd("Terminate", "", 0), Cmd("StopCurrentTask", "", 0),
     Cmd("SendUserInput", "", 0), Cmd("SendTrace", "tool", 0),
     Cmd("WaitTurn", "", 0), Cmd("Droping", "", 0)}

LifeKinds == {<<"ls", "p">>, <<"write", "p">>}

Init == InitWith(InitTraces, {NoClaims}, AllSockets)

\* what next_step returns in Spec: no call or one call
LifeDecisions == PlainDecisions \cup ToolDecisions(LifeKinds, {1})

Next ==
    \/ LoopStep(LifeDecisions, MaxTurns)
    \/ ToolStep
    \/ WatcherReply
    \/ Send(LifeCommands, MaxCmds)

Spec == Init /\ [][Next]_vars

\* Spec where the runtime keeps scheduling the main loop task inside a
\* command handler and the task of each tool call, but not the execution
\* of a tool, which may run for ever
SpecRun ==
    /\ Spec
    /\ WF_vars(LoopCommandRest)
    /\ WF_vars(\E k \in DOMAIN tools : ToolJoin(k) \/ ToolCancelled(k))
    /\ WF_vars(\E k \in DOMAIN tools : ToolCompleted(k))

\* SpecLoop: the main loop, the brain and several controllers, no tool
LoopCommands ==
    {Cmd("Terminate", "", 0), Cmd("StopCurrentTask", "", 0),
     Cmd("SendUserInput", "", 0), Cmd("SendTrace", "user", 0),
     Cmd("GetState", "", 0), Cmd("WaitTurn", "", 0), Cmd("Droping", "", 0),
     Cmd("UserQueryResponse", "", 0)}

\* what next_step returns in SpecLoop: an error, an assistant message
\* without tool calls, or a message that is not an assistant message
LoopDecisions ==
    PlainDecisions \cup {Decision("user", <<>>, "AgentContinue", FALSE)}

NextLoop ==
    \/ LoopStep(LoopDecisions, MaxTurns)
    \/ WatcherReply
    \/ Send(LoopCommands, MaxLoopCmds)
    \/ ControllerStep

SpecLoop == Init /\ [][NextLoop]_vars

\* SpecLoop where the runtime keeps scheduling the watcher tasks that
\* handle_wait_turn spawned
SpecLoopFair == SpecLoop /\ WF_vars(WatcherReply)

\* SpecLoop where the main loop task keeps being scheduled at the top of
\* its loop
SpecLoopRun == SpecLoop /\ WF_vars(LoopPausedNoIo)

\* SpecTools: one turn of parallel tool calls behind the permission gate
ToolKinds ==
    {<<"ls", "p">>, <<"env", "p">>, <<"write", "p">>, <<"write", "bad">>,
     <<"rm", "p">>}

ToolCommands ==
    {Cmd("Terminate", "", 0), Cmd("Sudo", "on", 0), Cmd("Sudo", "off", 0)}
    \cup {Cmd("UserPermissionResponse", r, q) :
            r \in {"Allow", "Deny"}, q \in 1..MaxCalls}

InitTools ==
    InitWith({<<UserMsg("init")>>}, SomeClaims, AllSockets)

\* what next_step returns in SpecTools: up to MaxCalls calls, or none
ToolsDecisions == ToolDecisions(ToolKinds, 1..MaxCalls) \cup PlainDecisions

NextTools ==
    \/ LoopStep(ToolsDecisions, MaxToolTurns)
    \/ ToolStep
    \/ PermissionStep
    \/ Send(ToolCommands, MaxCmds)

SpecTools == InitTools /\ [][NextTools]_vars

\* SpecTools where the runtime keeps scheduling the aggregator task
SpecToolsFair == SpecTools /\ WF_vars(ToolsCompleted)

\* SpecStarting: the Starting state's handler on every initial trace the
\* builder can hand over and every internal event
MaxStartTrace == 2

InternalEventTypes ==
    {"AgentInitialized", "CancelTask", "ThinkingStart", "BrainResult",
     "ToolCallStarted", "ToolCallCompleted", "ToolsCompleted",
     "UserResponseReceived", "PermissionResponseReceived"}

\* the messages a trace given to the builder may hold
StartMessages ==
    {UserMsg("init"), Msg("assistant", {}, "", "", "init", NoTok),
     Msg("tool", {}, "c1", "ok", "init", NoTok)}

\* AgentBuilder::build: the trace given to the builder, then the goal as a
\* user message when a goal is set
StartTraces ==
    LET Given == UNION {[1..n -> StartMessages] : n \in 0..MaxStartTrace}
    IN  Given \cup {Append(t, UserMsg("goal")) : t \in Given}

\* two internal events in a row, of any kind
StartEvents == [1..2 -> {IEv(t) : t \in InternalEventTypes}]

InitStarting ==
    /\ state = St("Starting")
    /\ trace \in StartTraces
    /\ claims = NoClaims
    /\ cancelled = {}
    /\ nextTok = 1
    /\ brains = <<>>
    /\ phases = <<>>
    /\ tools = <<>>
    /\ cmdq = <<>>
    /\ rx = [created |-> FALSE, closed |-> FALSE, refused |-> 0,
             ctl |-> 0]
    /\ hasTx \in BOOLEAN
    /\ events = <<>>
    /\ ibus \in StartEvents
    /\ replies = {}
    /\ watchers = {}
    /\ returned = "no"
    /\ nextReq = 1
    /\ sent = 0
    /\ pend = NoPend
    /\ method = "FunctionCall"
    /\ context = <<>>
    /\ HttpInit

\* handle_event called with the next event while the state is Starting
StartingHandleEvent ==
    /\ returned = "no" /\ state.name = "Starting"
    /\ ibus # <<>>
    /\ Install(handle_event([Cur EXCEPT !.ibus = Tail(@)], Head(ibus)))
    /\ UNCHANGED <<cmdq, returned>>
    /\ LoopFrame

NextStarting == StartingHandleEvent

SpecStarting == InitStarting /\ [][NextStarting]_vars

\* SpecAlways: a brain that asks for the same write in every turn, and a
\* user who answers AllowAlways
MaxAlwaysTurns == 2

MaxAlwaysCmds == 2

AlwaysKinds == {<<"write", "p">>}

AlwaysCommands ==
    {Cmd("Terminate", "", 0)}
    \cup {Cmd("UserPermissionResponse", "AllowAlways", q) :
            q \in 1..MaxAlwaysTurns}

InitAlways == InitWith({<<UserMsg("init")>>}, {NoClaims}, AllSockets)

AlwaysDecisions == ToolDecisions(AlwaysKinds, {1})

NextAlways ==
    \/ LoopStep(AlwaysDecisions, MaxAlwaysTurns)
    \/ ToolStep
    \/ PermissionStep
    \/ Send(AlwaysCommands, MaxAlwaysCmds)

SpecAlways == InitAlways /\ [][NextAlways]_vars

\* SpecErrors: a brain that goes on after a turn whose calls cannot be
\* located
MaxErrorTurns == 2

MaxErrorCmds == 1

ErrorKinds ==
    {<<"ls", "p">>, <<"write", "p">>, <<"write", "bad">>, <<"rm", "p">>}

ErrorDecisions == ToolDecisions(ErrorKinds, {1})

ErrorCommands == {Cmd("Terminate", "", 0)}

InitErrors == InitWith({<<UserMsg("init")>>}, {NoClaims}, AllSockets)

NextErrors ==
    \/ LoopStep(ErrorDecisions, MaxErrorTurns)
    \/ ToolStep
    \/ Send(ErrorCommands, MaxErrorCmds)

SpecErrors == InitErrors /\ [][NextErrors]_vars

\* SpecNoWatch: an agent whose owner took a controller, or nothing, and
\* never called watch(), on_event() or with_event_handler(): the event
\* channel exists only once a WaitTurn was handled
MaxWatchTurns == 1

MaxWatchCmds == 2

WatchKinds == {<<"ls", "p">>, <<"write", "p">>}

WatchDecisions == PlainDecisions \cup ToolDecisions(WatchKinds, {1})

WatchCommands ==
    {Cmd("WaitTurn", "", 0), Cmd("SendUserInput", "", 0),
     Cmd("Terminate", "", 0)}

NoWatchSockets == {<<TRUE, FALSE>>, <<FALSE, FALSE>>}

InitNoWatch == InitWith(InitTraces, {NoClaims}, NoWatchSockets)

NextNoWatch ==
    \/ LoopStep(WatchDecisions, MaxWatchTurns)
    \/ ToolStep
    \/ WatcherReply
    \/ Send(WatchCommands, MaxWatchCmds)

SpecNoWatch == InitNoWatch /\ [][NextNoWatch]_vars

\* SpecPermits: one turn of two calls that both need a permission, on an
\* agent with a controller and a watcher, and a user whose answers carry
\* the id of a request or an id no request has (0)
MaxPermitTurns == 1

MaxPermitCmds == 2

PermitKinds == {<<"write", "p">>}

PermitDecisions == ToolDecisions(PermitKinds, {MaxCalls})

PermitCommands ==
    {Cmd("Terminate", "", 0)}
    \cup {Cmd("UserPermissionResponse", "Allow", q) : q \in 0..MaxCalls}

InitPermits == InitWith({<<UserMsg("init")>>}, {NoClaims}, {<<TRUE, TRUE>>})

\* the owner keeps its controller, so the loop always has a channel
NextPermits ==
    \/ Start
    \/ LoopReturn
    \/ LoopRunningCommand
    \/ LoopThinkingStart(MaxPermitTurns)
    \/ LoopSelectCommand
    \/ LoopSelectInternal
    \/ BrainPublish(PermitDecisions)
    \/ BrainCancelled
    \/ ToolStep
    \/ PermissionStep
    \/ Send(PermitCommands, MaxPermitCmds)

SpecPermits == InitPermits /\ [][NextPermits]_vars

\* SpecDispatch: handle_event on the results a brain task or a tools phase
\* may publish, in every state but Running and Processing
IgnoringStates ==
    {St("Starting"), St("Paused"), Completed(TRUE), Completed(FALSE),
     St("Failed")}

LateEvents ==
    {[IEv("BrainResult") EXCEPT !.d = d, !.tok = 1] : d \in LifeDecisions}
    \cup {[IEv("ToolsCompleted") EXCEPT !.tok = 1, !.any_denied = b] :
            b \in BOOLEAN}

\* two late events in a row
LateEventPairs == [1..2 -> LateEvents]

\* the agent when the late events arrive
InitDispatch ==
    /\ state \in IgnoringStates
    /\ trace \in StartTraces
    /\ claims \in SomeClaims
    /\ cancelled = {1}
    /\ nextTok = 2
    /\ brains = <<>>
    /\ phases = <<>>
    /\ tools = <<>>
    /\ cmdq = <<>>
    /\ rx = [created |-> FALSE, closed |-> FALSE, refused |-> 0,
             ctl |-> 0]
    /\ hasTx \in BOOLEAN
    /\ events = <<>>
    /\ ibus \in LateEventPairs
    /\ replies = {}
    /\ watchers = {}
    /\ returned = "no"
    /\ nextReq = 1
    /\ sent = 0
    /\ pend = NoPend
    /\ method = "FunctionCall"
    /\ context = <<>>
    /\ HttpInit

\* handle_event called with the late event
DispatchEvent ==
    /\ returned = "no" /\ ibus # <<>>
    /\ Install(handle_event([Cur EXCEPT !.ibus = Tail(@)], Head(ibus)))
    /\ UNCHANGED <<cmdq, returned>>
    /\ LoopFrame

NextDispatch == DispatchEvent

SpecDispatch == InitDispatch /\ [][NextDispatch]_vars

\* SpecManager: the clients of one SessionManager
InitManager == InitWith({<<>>}, {NoClaims}, {<<FALSE, FALSE>>})

NextManager ==
    \E id \in Ids :
        \/ create_new_session(id)
        \/ get_session_load(id)
        \/ get_session_store(id)
        \/ get_session_fail(id)
        \/ cleanup(id)

\* SpecAnswers: one call to a tool that needs a permission, and a user who
\* gives any of the answers PermissionResponse has
MaxAnswerTurns == 1

MaxAnswerCmds == 2

PermissionResponses ==
    {"Allow", "AllowAlways", "Forbidden", "Deny", "NoPermissionSystem"}

AnswerKinds == {<<"write", "p">>}

AnswerDecisions == ToolDecisions(AnswerKinds, {1})

AnswerCommands ==
    {Cmd("Terminate", "", 0)}
    \cup {Cmd("UserPermissionResponse", r, 1) : r \in PermissionResponses}

InitAnswers == InitWith({<<UserMsg("init")>>}, {NoClaims}, AllSockets)

NextAnswers ==
    \/ LoopStep(AnswerDecisions, MaxAnswerTurns)
    \/ ToolStep
    \/ PermissionStep
    \/ Send(AnswerCommands, MaxAnswerCmds)

SpecAnswers == InitAnswers /\ [][NextAnswers]_vars

SpecManager == InitManager /\ [][NextManager]_vars

\* SpecSession: one AgentSession as create_session builds it (sudo, a
\* controller and a watcher), new or restored, and the requests on it
MaxSessionTurns == 2

SudoClaims == [NoClaims EXCEPT !.sudo = TRUE]

InitSession ==
    /\ AgentInit(InitTraces, {SudoClaims}, {<<TRUE, TRUE>>})
    /\ sessions = {}
    /\ loading = [id \in Ids |-> 0]
    /\ session \in [ephemeral : BOOLEAN, controller : {0}]
    /\ requests = [r \in Requests |-> Request("idle", 0, 0, FALSE)]

\* the session keeps its controller, so the loop always has a channel
NextSession ==
    \/ Start
    \/ LoopReturn
    \/ LoopRunningCommand
    \/ LoopThinkingStart(MaxSessionTurns)
    \/ LoopSelectCommand
    \/ LoopSelectInternal
    \/ BrainPublish(PlainDecisions)
    \/ BrainCancelled
    \/ WatcherReply
    \/ RequestStep

SpecSession == InitSession /\ [][NextSession]_vars

\* SpecQuiet: the commands that cancel nothing, during turns with a tool call
MaxQuietTurns == 2
MaxQuietCmds == 2

Methods == {"FunctionCall", "StructuredOutput"}

QuietTypes ==
    {"GetState", "Sudo", "SwitchToolCallMethod", "WaitTurn",
     "UserQueryResponse", "UserPermissionResponse"}

QuietCommands ==
    {Cmd("GetState", "", 0), Cmd("Sudo", "on", 0), Cmd("WaitTurn", "", 0),
     Cmd("UserQueryResponse", "", 0),
     Cmd("UserPermissionResponse", "Allow", 1),
     Cmd("SwitchToolCallMethod", "", 0)}
    \cup {Cmd("SwitchToolCallMethod", m, 0) : m \in Methods}

QuietDecisions == PlainDecisions \cup ToolDecisions(LifeKinds, {1})

InitQuiet == InitWith({<<UserMsg("init")>>}, {NoClaims}, {<<TRUE, TRUE>>})

\* no command cancels or terminates, so no task ever sees its token
\* cancelled and the loop never reaches a terminal state
NextQuiet ==
    \/ Start
    \/ LoopRunningCommand
    \/ LoopThinkingStart(MaxQuietTurns)
    \/ LoopSelectCommand
    \/ LoopSelectInternal
    \/ BrainPublish(QuietDecisions)
    \/ LoopSpawnToolsSetState
    \/ \E k \in DOMAIN tools : ToolBegin(k)
    \/ \E k \in DOMAIN tools : ToolCheckPermission(k)
    \/ \E k \in DOMAIN tools : ToolExecute(k)
    \/ \E k \in DOMAIN tools : ToolJoin(k)
    \/ \E k \in DOMAIN tools : ToolCompleted(k)
    \/ ToolsCompleted
    \/ PermissionStep
    \/ WatcherReply
    \/ Send(QuietCommands, MaxQuietCmds)

SpecQuiet == InitQuiet /\ [][NextQuiet]_vars

\* ------------------------------------------------------------- the claims
\* the assistant messages before position n of the trace that carry call id
HasEarlierCall(n) ==
    \E m \in 1..(n - 1) :
        trace[m].role = "assistant" /\ trace[n].cid \in trace[m].calls

\* C1, as stated: every tool message of the trace has an earlier assistant
\* message whose tool-call list contains its call id.
C1_EveryToolMessageHasItsCall ==
    \A n \in 1..Len(trace) : trace[n].role = "tool" => HasEarlierCall(n)

\* C1, amended: every tool message a tool task pushed has an earlier
\* assistant message, pushed by process_next_step for the same tools phase,
\* whose tool-call list contains its call id, whatever commands and
\* cancellations ran in between.
C1_ToolTaskMessagesHaveTheirCall ==
    \A n \in 1..Len(trace) :
        (trace[n].role = "tool" /\ trace[n].src = "tool") =>
            \E m \in 1..(n - 1) :
                /\ trace[m].role = "assistant" /\ trace[m].src = "brain"
                /\ trace[n].cid \in trace[m].calls
                /\ trace[m].calls = CallIdsOf(phases[trace[n].tok].calls)

\* C1 witness: a cancelled tool task pushed its message after the message
\* of the command that cancelled it
C1_Witness ==
    \E n \in 1..Len(trace) : \E m \in 1..(n - 1) :
        /\ trace[n].role = "tool" /\ trace[n].src = "tool"
        /\ trace[n].res = "Cancelled"
        /\ trace[m].src \in {"input", "trace"}

\* C2: once the StatusChanged of the command that cancelled a brain task
\* has been emitted, no BrainResult{Ok} of that task is emitted.
C2_NoBrainResultOfCancelledTask ==
    \A i \in 1..Len(events) : \A j \in 1..Len(events) :
        ( /\ events[i].type = "StatusChanged"
          /\ events[i].old.name = "Processing"
          /\ events[i].old.task = "next_step"
          /\ events[i].tok \in cancelled
          /\ events[j].type = "BrainResult" /\ events[j].res = "ok"
          /\ events[j].tok = events[i].tok ) => j < i

\* C3, as stated: at the instant an Ack is sent in answer to a WaitTurn,
\* by either path, the agent state is Paused.
C3_AckOnlyWhilePaused ==
    \A r \in replies :
        (r.type = "WaitTurn" /\ r.resp = "Ack") => r.at = "Paused"

\* C3, amended: an Ack in answer to a WaitTurn is sent either by the handler
\* itself with the agent state Paused at that instant, or by the watcher
\* task after a StatusChanged to Paused that was published since the
\* command was handled and before any StatusChanged to a terminal state;
\* the state at the instant the watcher sends may have moved on.
C3_AckFollowsPaused ==
    \A r \in replies :
        (r.type = "WaitTurn" /\ r.resp = "Ack") =>
            \/ r.path = "immediate" /\ r.at = "Paused"
            \/ /\ r.path = "watcher"
               /\ \E n \in (r.pos + 1)..Len(events) :
                    /\ events[n].type = "StatusChanged"
                    /\ events[n].new.name = "Paused"
                    /\ \A m \in (r.pos + 1)..(n - 1) : ~Decisive(events[m])

\* C3 witness: a watcher sent Ack when another command had already moved
\* the agent to Running
C3_Witness ==
    \E r \in replies :
        /\ r.type = "WaitTurn" /\ r.resp = "Ack"
        /\ r.path = "watcher" /\ r.at = "Running"

\* the public events of a type emitted for the call of tool task k
EvCount(type, k) ==
    Cardinality({n \in 1..Len(events) :
        /\ events[n].type = type
        /\ events[n].tok = k[1]
        /\ events[n].cid = CallOf(k).id})

\* C4, as stated: once the task of a call has finished, as many
\* ToolCallStarted as ToolCallCompleted events were emitted for its call id.
C4_StartedEqualsCompleted ==
    \A k \in DOMAIN tools :
        tools[k].o = "done" =>
            EvCount("ToolCallStarted", k) = EvCount("ToolCallCompleted", k)

\* C4, amended: when the tools phase has an event channel, a call whose
\* task has finished has exactly one ToolCallCompleted, and exactly one
\* ToolCallStarted if its parameters parse and its tool exists, none
\* otherwise; no ToolCallCompleted is emitted before the task finishes and
\* none of the two events without an event channel.
C4_OneCompletedPerCall ==
    \A k \in DOMAIN tools :
        LET started == EvCount("ToolCallStarted", k)
            completed == EvCount("ToolCallCompleted", k)
            located == tool_exist(CallOf(k)) = "Ok"
        IN  /\ ~phases[k[1]].ptx => started = 0 /\ completed = 0
            /\ tools[k].o # "done" => completed = 0
            /\ (tools[k].o = "done" /\ phases[k[1]].ptx) =>
                    /\ completed = 1
                    /\ started = (IF located THEN 1 ELSE 0)

\* C4 witness: a call cancelled while it waited for a permission has
\* finished, with both events emitted
C4_Witness ==
    \E k \in DOMAIN tools :
        /\ tools[k].o = "done" /\ tools[k].res = "Cancelled"
        /\ tools[k].req # 0
        /\ EvCount("ToolCallStarted", k) = 1
        /\ EvCount("ToolCallCompleted", k) = 1

TerminateHandled == \E r \in replies' \ replies : r.type = "Terminate"

\* C5: the state becomes terminal only in the step that handles a Terminate
\* (Completed{false}) or in the loop's step for Paused with the command
\* channel closed or absent (Completed{true}); both always end in that
\* state; Failed is never reached and no brain result, brain error, tool
\* result or denial makes the state terminal.
C5_TerminalIffTerminateOrClosed ==
    [][ /\ state'.name # "Failed"
        /\ (~IsTerminal(state) /\ IsTerminal(state')) =>
              \/ TerminateHandled /\ state' = Completed(FALSE)
              \/ /\ state.name = "Paused" /\ ~has_io(Cur)
                 /\ state' = Completed(TRUE)
        /\ TerminateHandled => state' = Completed(FALSE)
        /\ ( /\ state.name = "Paused" /\ ~has_io(Cur) /\ returned = "no"
             /\ \/ state' # state
                \/ Len(cmdq') < Len(cmdq)
                \/ Len(ibus') < Len(ibus) ) =>
              state' = Completed(TRUE) /\ returned' = "ok_true"
      ]_vars

\* C5 witness: after a denied tool call paused the agent, the absent
\* command channel completed it
C5_Witness ==
    /\ state = Completed(TRUE)
    /\ \E k \in DOMAIN tools : tools[k].res = "Denied"
    /\ \E n \in 1..Len(trace) : trace[n].res = "Denied"

\* C6: when every controller has been dropped and the state is Paused, the
\* loop sees no command channel and takes the Paused-to-Completed shortcut.
C6_DroppedControllersComplete ==
    (Looping /\ state.name = "Paused" /\ rx.created /\ rx.ctl = 0) =>
        ~has_io(Cur)

\* the tool of the call of task k needs a permission: it exists and is not
\* read-only
Gated(k) ==
    /\ tool_exist(CallOf(k)) = "Ok"
    /\ ~ReadOnly(capabilities(CallOf(k).name))

C8_ReadOnlySkipsPermission ==
    \A k \in DOMAIN tools :
        (tool_exist(CallOf(k)) = "Ok"
            /\ ReadOnly(capabilities(CallOf(k).name))) =>
            /\ EvCount("PermissionRequired", k) = 0
            /\ tools[k].req = 0
            /\ ~tools[k].consulted
            /\ tools[k].i \in {"none", "check", "exec", "done"}
            /\ tools[k].i = "done" =>
                  tools[k].ires \in {"Success", "Error", "Cancelled"}

\* C8 witness: without sudo, a read-only tool was executed while the other
\* call of the turn had to ask for its permission
C8_Witness ==
    \E k \in DOMAIN tools : \E j \in DOMAIN tools :
        /\ ~Gated(k) /\ tool_exist(CallOf(k)) = "Ok"
        /\ ~tools[k].sudoAtCheck /\ tools[k].executed = 1
        /\ phases[k[1]].ptx
        /\ EvCount("PermissionRequired", j) = 1

IsPrefix(a, b) == Len(a) <= Len(b) /\ SubSeq(b, 1, Len(a)) = a

StatusChanges(evs) ==
    Cardinality({n \in 1..Len(evs) : evs[n].type = "StatusChanged"})

\* C9: from a terminal state on, the state does not change, no command and
\* no internal event is taken from its channel, no StatusChanged is emitted,
\* the trace, the claims and the tokens are left alone, and the loop is where
\* its next step returns.
C9_TerminalAbsorbing ==
    [][ IsTerminal(state) =>
            /\ state' = state
            /\ IsPrefix(cmdq, cmdq') /\ IsPrefix(ibus, ibus')
            /\ StatusChanges(events') = StatusChanges(events)
            /\ trace' = trace /\ claims' = claims
            /\ cancelled' = cancelled /\ nextTok' = nextTok
            /\ pend.k = "none"
            /\ returned' # returned => returned = "no"
      ]_vars

\* C9 witness: the loop returned and left a command and an internal event
\* unhandled
C9_Witness ==
    /\ returned = "ok_false"
    /\ cmdq # <<>> /\ ibus # <<>>

\* C10: the step that answers a Terminate answers Ack, starts in a
\* non-terminal state, leaves the state Completed{false} with the token of
\* a Processing state fired, and the loop where its next step returns; run
\* returns nothing but Ok with success false afterwards.
C10_TerminateCompletes ==
    [][ /\ \A r \in replies' \ replies :
              r.type = "Terminate" =>
                  /\ r.resp = "Ack"
                  /\ ~IsTerminal(state)
                  /\ state.name = "Processing" => state.tok \in cancelled'
                  /\ state' = Completed(FALSE)
                  /\ returned' = "no" /\ pend'.k = "none"
        /\ (\E r \in replies' : r.type = "Terminate") =>
              /\ state' = Completed(FALSE)
              /\ returned' \in {"no", "ok_false"}
              /\ returned = "no" /\ returned' # "no" =>
                    returned' = "ok_false"
      ]_vars

\* C10 witness: run returned Ok with success false after a Terminate that
\* cancelled a tool call in flight
C10_Witness ==
    /\ returned = "ok_false"
    /\ \E r \in replies : r.type = "Terminate" /\ r.at = "Completed"
    /\ \E k \in DOMAIN tools : tools[k].res = "Cancelled"

\* the command the main loop is handling in a step that answers one
HandledCmd == IF pend.k = "cmd" THEN pend.cmd ELSE Head(cmdq)

\* C11: the step that answers a SendUserInput or a SendTrace answers Ack,
\* has the token of a Processing state fired, appends to the trace exactly
\* one user message, or the messages of the SendTrace in order as one block,
\* and leaves the state Running; while the handler has fired the token and has
\* not appended yet, the token is fired.
C11_InputCancelsAppendsRuns ==
    [][ /\ \A r \in replies' \ replies :
              r.type \in {"SendUserInput", "SendTrace"} =>
                  /\ r.resp = "Ack"
                  /\ state.name = "Processing" => state.tok \in cancelled'
                  /\ trace' = trace \o
                        (IF r.type = "SendUserInput"
                         THEN <<UserMsg("input")>>
                         ELSE TraceBlock(HandledCmd.arg))
                  /\ state' = St("Running")
        /\ (pend'.k = "cmd" /\ state'.name = "Processing") =>
              state'.tok \in cancelled'
      ]_vars

\* C11 witness: a SendTrace was answered while a tool task was in flight;
\* its block is contiguous and the cancelled task pushed its message later
C11_Witness ==
    /\ \E r \in replies : r.type = "SendTrace" /\ r.resp = "Ack"
    /\ \E n \in 1..Len(trace) :
          /\ n + 2 <= Len(trace)
          /\ trace[n].src = "trace" /\ trace[n].role = "tool"
          /\ trace[n + 1].src = "trace" /\ trace[n + 1].role = "user"
          /\ trace[n + 2].src = "tool"

\* the step in which the main loop takes a cancelling command from the
\* command channel
TakesCancelling ==
    /\ pend.k = "none" /\ Len(cmdq') < Len(cmdq)
    /\ Head(cmdq).type \in CancellingCommands

\* what C12 allows as the next public event
CancelOutcome(e) ==
    \/ e.type = "StatusChanged" /\ e.new.name # "Processing"
    \/ e.type = "ToolCallCompleted" /\ e.res = "Cancelled"

ToolEventTypes == {"ToolCallStarted", "ToolCallCompleted", "PermissionRequired"}

\* C12, as stated: the first public event sent once the main loop has taken
\* a cancelling command is a StatusChanged whose new state is not Processing
\* or a ToolCallCompleted with the cancellation error.
C12_NextEventIsCancelOutcome ==
    [][ /\ (TakesCancelling /\ Len(events') > Len(events)) =>
              CancelOutcome(events'[Len(events) + 1])
        /\ (pend.k = "cmd" /\ Len(events) = pend.pos
                /\ Len(events') > Len(events)) =>
              CancelOutcome(events'[Len(events) + 1])
      ]_vars

\* the events the main loop sends for a cancelling command of type t, from
\* state st, as the last events of evs
EndsWithOutcome(evs, base, t, st) ==
    LET n == Len(evs)
        k == IF t = "SendUserInput" THEN 2 ELSE 1
    IN  /\ n = base + k
        /\ t = "SendUserInput" => evs[n - 1].type = "UserInput"
        /\ evs[n].type = "StatusChanged"
        /\ evs[n].new.name # "Processing"
        /\ evs[n].old = to_public(st)

\* C12, amended: once the main loop has taken a cancelling command, the
\* next public event the main loop sends is a StatusChanged whose new state
\* is not Processing, preceded by the UserInput event and nothing else when
\* the command is SendUserInput; until then only the tool tasks still in
\* flight send events (ToolCallStarted, PermissionRequired,
\* ToolCallCompleted with any result).
C12_LoopNextEventIsStatusChanged ==
    [][ /\ \A r \in replies' \ replies :
              (r.type \in CancellingCommands /\ hasTx) =>
                  EndsWithOutcome(events', Len(events), r.type, state)
        /\ (TakesCancelling /\ pend'.k = "cmd") => events' = events
        /\ (pend.k = "cmd" /\ pend'.k = "cmd") =>
              \A n \in (Len(events) + 1)..Len(events') :
                  events'[n].type \in ToolEventTypes
      ]_vars

\* C12 witness: a SendUserInput cancelled a tools phase; a tool task sent
\* an event after the command was taken, then came UserInput and the
\* StatusChanged
C12_Witness ==
    \E n \in 2..Len(events) :
        /\ n + 1 <= Len(events)
        /\ events[n].type = "UserInput"
        /\ events[n - 1].type \in ToolEventTypes
        /\ events[n - 1].tok \in cancelled
        /\ events[n + 1].type = "StatusChanged"
        /\ events[n + 1].old.task = "tools"
        /\ events[n + 1].new.name = "Running"

\* the assistant messages with tool calls that process_next_step pushed
CallMessages ==
    {m \in 1..Len(trace) : trace[m].src = "brain" /\ trace[m].calls # {}}

\* C13: whenever a ToolCallStarted event of a tools phase has been emitted,
\* the assistant message that carries the calls of that phase is in the
\* trace (which only grows): as many such messages were pushed as tools
\* phases were spawned up to that one, and one of them lists the call.
C13_MessageBeforeToolCallStarted ==
    \A n \in 1..Len(events) :
        events[n].type = "ToolCallStarted" =>
            /\ Cardinality(CallMessages) >=
                  Cardinality({t \in DOMAIN phases : t <= events[n].tok})
            /\ \E m \in CallMessages :
                  /\ events[n].cid \in trace[m].calls
                  /\ trace[m].calls =
                        CallIdsOf(phases[events[n].tok].calls)

\* C13 witness: ToolCallStarted was emitted while the main loop had not yet
\* announced the tools phase, the assistant message being the last of the
\* trace
C13_Witness ==
    /\ pend.k = "tools"
    /\ \E n \in 1..Len(events) :
          events[n].type = "ToolCallStarted" /\ events[n].tok = pend.tok
    /\ trace[Len(trace)].src = "brain"
    /\ Cardinality(trace[Len(trace)].calls) = MaxCalls

\* C14: every ToolCallCompleted of a call that was located (its parameters
\* parse and its tool exists) comes after a ToolCallStarted of that call in
\* the event stream.
C14_StartedBeforeCompleted ==
    \A j \in 1..Len(events) :
        (events[j].type = "ToolCallCompleted"
            /\ events[j].res \notin {"ParseError", "NotFound"}) =>
            \E i \in 1..(j - 1) :
                /\ events[i].type = "ToolCallStarted"
                /\ events[i].tok = events[j].tok
                /\ events[i].cid = events[j].cid

\* C14 witness: two located calls ran in parallel, the events of one
\* between the ToolCallStarted and the ToolCallCompleted of the other
C14_Witness ==
    \E i, j, l \in 1..Len(events) :
        /\ i < l /\ l < j
        /\ events[i].type = "ToolCallStarted"
        /\ events[j].type = "ToolCallCompleted"
        /\ events[j].cid = events[i].cid
        /\ events[l].type = "ToolCallCompleted"
        /\ events[l].cid # events[i].cid
        /\ events[l].res = "Success"

\* the public events the tool tasks emit
IsToolEvent(e) == e.type \in ToolEventTypes

\* the tools phase of token t was announced before the event at index j
AnnouncedBefore(t, j) ==
    Cardinality({i \in 1..(j - 1) :
                    /\ events[i].type = "StatusChanged"
                    /\ events[i].new.name = "Processing"
                    /\ events[i].new.task = "tools"}) >=
        Cardinality({p \in DOMAIN phases : p <= t})

\* the tools phase of token t was left before the event at index j
LeftBefore(t, j) ==
    \E i \in 1..(j - 1) :
        /\ events[i].type = "StatusChanged"
        /\ events[i].old.name = "Processing"
        /\ events[i].old.task = "tools"
        /\ events[i].tok = t

C15_AnnouncedBeforeToolEvents ==
    \A j \in 1..Len(events) :
        IsToolEvent(events[j]) => AnnouncedBefore(events[j].tok, j)

C15_NoToolEventAfterLeaving ==
    \A j \in 1..Len(events) :
        IsToolEvent(events[j]) => ~LeftBefore(events[j].tok, j)

\* C15: the StatusChanged that announces a tools phase precedes every
\* ToolCallStarted, ToolCallCompleted and PermissionRequired of that phase,
\* and no event of a tools phase follows the StatusChanged that leaves it.
C15_StatusChangedDelimitsPhase ==
    C15_AnnouncedBeforeToolEvents /\ C15_NoToolEventAfterLeaving

\* the WaitTurn replies sent so far respect the order of the events
WaitTurnRepliesInOrder ==
    \A r \in replies :
        r.type = "WaitTurn" =>
            \/ r.path = "immediate" /\ r.at = "Paused" /\ r.resp = "Ack"
            \/ /\ r.path = "watcher"
               /\ LET n == FirstDecisive(events, r.pos)
                  IN  /\ n # 0
                      /\ events[n].new.name \in {"Completed", "Failed"} =>
                            r.resp = "Error"
                      /\ events[n].new.name = "Paused" => r.resp = "Ack"

\* the WaitTurn command id was handled and a Paused or terminal state was
\* announced since
WaitTurnDue(id) ==
    \E w \in watchers : w.id = id /\ FirstDecisive(events, w.pos) # 0

WaitTurnReplied(id) ==
    \E r \in replies : r.id = id /\ r.type = "WaitTurn"

TakesBrainResult ==
    /\ Selecting /\ state.name = "Processing"
    /\ ibus # <<>> /\ Head(ibus).type = "BrainResult"
    /\ ibus' = Tail(ibus) /\ cmdq' = cmdq

\* C17: when the main loop, in Processing, receives the result of a brain
\* task that is an error or a message other than an assistant message, the
\* state becomes Paused (not a terminal state), the public events (when the
\* event channel exists) gain the StatusChanged and then a BrainResult
\* carrying the error, and the trace is unchanged; afterwards a SendUserInput handled in Paused sets Running, and
\* the loop in Running starts a new brain task.
C17_BrainErrorPausesAndRecovers ==
    [][ /\ (TakesBrainResult /\ Head(ibus).d.kind # "assistant") =>
              /\ state' = St("Paused")
              /\ trace' = trace
              /\ returned' = "no"
              /\ hasTx =>
                    events' = events \o
                      <<StatusChanged(to_public(state),
                                      to_public(St("Paused")), state.tok),
                        Ev("BrainResult", NoPub, NoPub, Head(ibus).tok, "",
                           "err")>>
        /\ ( /\ Looping /\ state.name = "Paused"
             /\ cmdq # <<>> /\ Head(cmdq).type = "SendUserInput"
             /\ cmdq' = Tail(cmdq) ) =>
              state' = St("Running")
        /\ ( /\ Looping /\ state.name = "Running"
             /\ state'.name # "Running" /\ cmdq' = cmdq ) =>
              /\ state' = Processing("next_step", nextTok)
              /\ nextTok \notin DOMAIN brains
              /\ brains' = (nextTok :> "thinking") @@ brains
    ]_vars

\* C17 witness: after the brain's error was published, a UserInput was
\* accepted and a new brain task is thinking
C17_Witness ==
    \E i, j, l \in 1..Len(events) :
        /\ i < j /\ j < l
        /\ events[i].type = "BrainResult" /\ events[i].res = "err"
        /\ events[i - 1].type = "StatusChanged"
        /\ events[i - 1].new.name = "Paused"
        /\ events[j].type = "UserInput"
        /\ events[l].type = "StatusChanged"
        /\ events[l].new.name = "Processing"
        /\ state.name = "Processing"
        /\ brains[state.tok] = "thinking"
        /\ events[i].tok < state.tok

LastIsUser(t) == t # <<>> /\ t[Len(t)].role = "user"

\* C18: in Starting, AgentInitialized sets Running when the last message of
\* the trace is a user message and Paused otherwise (an empty trace too),
\* announcing it; any other internal event leaves the state, the trace and
\* the public events as they are.
C18_StartingTransitions ==
    [][ (state.name = "Starting" /\ ibus # <<>> /\ ibus' = Tail(ibus)) =>
          IF Head(ibus).type = "AgentInitialized"
          THEN /\ state' = (IF LastIsUser(trace) THEN St("Running")
                                                 ELSE St("Paused"))
               /\ trace' = trace
               /\ hasTx => events' = Append(events,
                     StatusChanged(to_public(state), to_public(state'),
                                   NoTok))
          ELSE /\ state' = state
               /\ trace' = trace
               /\ events' = events
    ]_vars

\* C18 witness: a trace that begins with a user message and ends with
\* another kind of message started the agent in Paused; the event before
\* AgentInitialized, of another kind, had been ignored
C18_Witness ==
    /\ state = St("Paused")
    /\ ibus = <<>>
    /\ Len(trace) = MaxStartTrace
    /\ trace[1].role = "user"
    /\ trace[Len(trace)].role = "tool"
    /\ Len(events) = 1

\* C19: when the main loop, in Processing, receives an assistant message
\* from the brain, then with one tool call or more it spawns one task per
\* call, whatever the flow, and its next step announces the tools phase of
\* those tasks; with no tool call it sets Running on AgentContinue and
\* Paused on AgentPause.
C19_ToolCallsOverrideFlow ==
    [][ /\ (TakesBrainResult /\ Head(ibus).d.kind = "assistant") =>
              LET d == Head(ibus).d
              IN  IF d.calls # <<>>
                  THEN /\ state' = state
                       /\ pend'.k = "tools" /\ pend'.tok = nextTok
                       /\ nextTok \notin DOMAIN phases
                       /\ DOMAIN phases' = DOMAIN phases \cup {nextTok}
                       /\ phases'[nextTok].calls = d.calls
                       /\ DOMAIN tools' = DOMAIN tools \cup
                             {<<nextTok, n>> : n \in 1..Len(d.calls)}
                       /\ DOMAIN tools \cap
                             {<<nextTok, n>> : n \in 1..Len(d.calls)} = {}
                  ELSE /\ state' = St(IF d.flow = "AgentContinue"
                                      THEN "Running" ELSE "Paused")
                       /\ pend' = NoPend
                       /\ tools' = tools
        /\ (pend.k = "tools" /\ pend'.k # "tools") =>
              state' = Processing("tools", pend.tok)
    ]_vars

\* C19 witness: the tools phase of a decision with two calls whose flow was
\* AgentContinue, one task for each call
C19_Witness ==
    /\ state.name = "Processing" /\ state.task = "tools"
    /\ Len(phases[state.tok].calls) = MaxCalls
    /\ FlowOf(phases[state.tok].calls) = "AgentContinue"
    /\ TasksOf(state.tok) = {<<state.tok, n>> : n \in 1..MaxCalls}

\* the call of task k was answered AllowAlways and has run
AllowedAlways(k) ==
    /\ tools[k].presp = "AllowAlways"
    /\ tools[k].o = "done" /\ tools[k].executed = 1

\* C20: once a call was answered AllowAlways and has run, a call of a later
\* turn to the same tool with the same parameters, checked with sudo off,
\* finds the claim and emits no PermissionRequired.
C20_AllowAlwaysIsRemembered ==
    \A k1, k2 \in DOMAIN tools :
        ( /\ k1[1] < k2[1]
          /\ AllowedAlways(k1)
          /\ CallOf(k2).name = CallOf(k1).name
          /\ CallOf(k2).args = CallOf(k1).args
          /\ tools[k2].consulted /\ ~tools[k2].sudoAtCheck ) =>
            /\ tools[k2].req = 0
            /\ EvCount("PermissionRequired", k2) = 0

\* the task of call k asked for a permission, got no answer, and its phase
\* was cancelled: its wait for the answer ended by the cancellation
CancelledWhileAsking(k) ==
    /\ tools[k].req # 0 /\ tools[k].presp = ""
    /\ k[1] \in cancelled

\* C21: a call whose phase is cancelled while it awaits the answer to its
\* PermissionRequired never ends as Denied: neither the tool message
\* appended to the trace nor its ToolCallCompleted carries Denied.
C21_CancellationIsNeverDenied ==
    \A k \in DOMAIN tools :
        CancelledWhileAsking(k) =>
            /\ tools[k].res # "Denied"
            /\ \A n \in 1..Len(trace) :
                  (trace[n].src = "tool" /\ trace[n].tok = k[1]
                      /\ trace[n].cid = CallOf(k).id) =>
                      trace[n].res # "Denied"
            /\ \A n \in 1..Len(events) :
                  (events[n].type = "ToolCallCompleted"
                      /\ events[n].tok = k[1]
                      /\ events[n].cid = CallOf(k).id) =>
                      events[n].res # "Denied"

\* C22: once the cancellation handle of a tools phase has fired with the
\* aggregator's ToolsCompleted not yet published, no later step publishes
\* ToolsCompleted for that phase.
C22_NoToolsCompletedAfterCancel ==
    [][ \A t \in DOMAIN phases :
          (t \in cancelled /\ phases[t].agg # "published") =>
              phases'[t].agg # "published" ]_vars

\* the main loop takes a Droping command
TakesDroping ==
    /\ pend.k = "none" /\ cmdq # <<>> /\ Head(cmdq).type = "Droping"
    /\ cmdq' = Tail(cmdq)

\* C23: handling Droping closes the command channel, replies Ack and leaves
\* the state, the trace and the running tasks alone; on a closed channel
\* every send is refused and queues nothing, and the channel stays closed;
\* in Paused with the channel closed the only state change is to
\* Completed{success=true}, and it eventually happens.
C23_DropingClosesIntake ==
    /\ [][ /\ TakesDroping =>
                /\ rx'.closed
                /\ \E r \in replies' \ replies :
                      r.id = Head(cmdq).id /\ r.resp = "Ack"
                /\ state' = state /\ trace' = trace
                /\ cancelled' = cancelled /\ brains' = brains
           /\ rx.closed =>
                /\ rx'.closed
                /\ Len(cmdq') <= Len(cmdq)
                /\ sent' # sent =>
                      cmdq' = cmdq /\ rx'.refused = rx.refused + 1
           /\ (rx.closed /\ state.name = "Paused") =>
                state' = state \/ state' = Completed(TRUE)
         ]_vars
    /\ (rx.closed /\ state.name = "Paused" /\ returned = "no")
          ~> (state = Completed(TRUE))

\* C23 witness: Droping was handled while a brain task was thinking, a later
\* send was refused, and the agent completed after the brain's answer paused
\* it
C23_Witness ==
    /\ \E r \in replies :
          r.type = "Droping" /\ r.resp = "Ack" /\ r.at = "Processing"
    /\ rx.closed /\ rx.refused = 1
    /\ state = Completed(TRUE)
    /\ \E n \in 1..Len(trace) : trace[n].src = "brain"

\* the tools phase spawned last, and the assistant message pushed last
LastPhase == CHOOSE p \in DOMAIN phases : \A q \in DOMAIN phases : q <= p

LastCallMessage == CHOOSE m \in CallMessages : \A n \in CallMessages : n <= m

\* the tool messages that answer call id cid after position m of the trace
ToolMessages(m, cid) ==
    {n \in (m + 1)..Len(trace) :
        trace[n].role = "tool" /\ trace[n].cid = cid}

\* C24: when a brain task is started and the tools phase spawned last has
\* published its ToolsCompleted, the trace holds exactly one tool message
\* for each call id of the last assistant message with calls.
C24_ToolMessageForEveryCall ==
    [][ ( /\ nextTok \in DOMAIN brains' /\ nextTok \notin DOMAIN brains
          /\ phases # <<>> /\ CallMessages # {}
          /\ phases[LastPhase].agg = "published" ) =>
            \A cid \in trace[LastCallMessage].calls :
                Cardinality(ToolMessages(LastCallMessage, cid)) = 1
      ]_vars

\* C25: no system message ever appears in the shared trace; a step of a
\* brain task leaves the trace as it is; and the handler of a brain's result
\* either leaves the trace as it is (error) or appends a single assistant
\* message.
C25_BrainLeavesTraceAlone ==
    /\ [](\A n \in 1..Len(trace) : trace[n].role # "system")
    /\ [][ /\ (brains' # brains /\ DOMAIN brains' = DOMAIN brains) =>
                trace' = trace
           /\ TakesBrainResult =>
                \/ trace' = trace
                \/ /\ Len(trace') = Len(trace) + 1
                   /\ trace' = Append(trace, trace'[Len(trace')])
                   /\ trace'[Len(trace')].role = "assistant"
                   /\ trace'[Len(trace')].src = "brain"
         ]_vars

\* C25 witness: two brain tasks have answered, the second one from a request
\* that held the system prompt and the first one's assistant message, and
\* the trace holds the two assistant messages and no system message
C25_Witness ==
    /\ \E t, u \in DOMAIN brains :
          t < u /\ brains[t] = "published" /\ brains[u] = "published"
    /\ next_step_request(trace)[1].role = "system"
    /\ Cardinality({n \in 1..Len(trace) : trace[n].src = "brain"}) = 2
    /\ \A n \in 1..Len(trace) : trace[n].role # "system"

\* C26: with no subscriber to the public events (nobody called watch(), no
\* WaitTurn watcher is listening), the permission check of a call to a tool
\* that is not read-only, without grant and with sudo off, ends the call as
\* Denied in that very step: no PermissionRequired is emitted and the task
\* does not wait for an answer.
C26_NoSubscriberMeansDenied ==
    [][ \A k \in DOMAIN tools :
          ( /\ tools[k].i = "check" /\ tools'[k].i # "check"
            /\ Gated(k) /\ ~can_run(CallOf(k), claims)
            /\ watchers = {} ) =>
              /\ tools'[k].i = "done" /\ tools'[k].ires = "Denied"
              /\ events' = events
      ]_vars

\* C27: the map of the SessionManager never holds more than max_sessions
\* sessions, whatever the interleaving of create_new_session, get_session
\* and the removal of a session whose agent has terminated.
C27_SessionsWithinLimit == Cardinality(sessions) <= MaxSessions

\* the request has the guard of the session's controller
Holds(r) ==
    requests[r].pc \in {"locked", "wait_turn", "turn", "send_trace", "holding"}

\* C28: at most one request of a session holds the guard of its controller
\* at a time; a request sends its WaitTurn and its SendTrace only while it
\* holds the guard and no other request does, so not before the
\* RequestLifecycle of an earlier request was dropped; and a SendTrace is
\* sent only once the request's own WaitTurn was answered Ack, which the
\* agent does for the Paused state.
C28_OneRequestAtATime ==
    /\ [](\A r \in Requests : Holds(r) <=> session.controller = r)
    /\ [](\A r \in Requests :
            requests[r].st # 0 =>
                \E a \in replies :
                    /\ a.id = requests[r].wt /\ a.type = "WaitTurn"
                    /\ a.resp = "Ack")
    /\ [][ \A r \in Requests :
              ( \/ requests'[r].wt # requests[r].wt
                \/ requests'[r].st # requests[r].st ) =>
                  /\ Holds(r)
                  /\ \A q \in Requests \ {r} : ~Holds(q)
                  /\ Len(cmdq') = Len(cmdq) + 1
                  /\ cmdq'[Len(cmdq')].type \in {"WaitTurn", "SendTrace"}
       ]_vars

\* C28 witness: the second request sent its trace after the first request's
\* lifecycle was dropped
C28_Witness ==
    /\ requests[1].pc = "dropped" /\ requests[1].st # 0
    /\ requests[2].st > requests[1].st

\* every task of the phase has returned
AllReturned(t) == \A k \in TasksOf(t) : tools[k].o = "done"

\* the main loop takes a ToolsCompleted from the internal bus while the
\* token of its phase has not fired
TakesToolsCompleted ==
    /\ Selecting
    /\ ibus # <<>> /\ Head(ibus).type = "ToolsCompleted"
    /\ Head(ibus).tok \notin cancelled
    /\ ibus' = Tail(ibus) /\ cmdq' = cmdq

\* C29: when every tool task of a phase has returned and the token of the
\* phase has not fired, the aggregator publishes ToolsCompleted, once per
\* phase and only then; its any_denied is true exactly when the result of
\* one of the calls is Denied (any other result, errors included, does not
\* count); the main loop that receives it sets Paused when any_denied is
\* true and Running otherwise.
C29_ToolsCompletedOncePerPhase ==
    /\ [][ \A t \in DOMAIN phases :
              /\ phases[t].agg = "published" => phases'[t].agg = "published"
              /\ (phases[t].agg # "published" /\ phases'[t].agg = "published")
                    <=> ( /\ Len(ibus') = Len(ibus) + 1
                          /\ ibus'[Len(ibus')].type = "ToolsCompleted"
                          /\ ibus'[Len(ibus')].tok = t )
              /\ (phases[t].agg # "published" /\ phases'[t].agg = "published")
                    => /\ AllReturned(t)
                       /\ ibus'[Len(ibus')].any_denied <=>
                            \E k \in TasksOf(t) : tools[k].res = "Denied"
       ]_vars
    /\ [][ TakesToolsCompleted =>
              state' = (IF Head(ibus).any_denied THEN St("Paused")
                        ELSE St("Running"))
       ]_vars
    /\ \A t \in 1..MaxToolTurns :
          (t \in DOMAIN phases /\ AllReturned(t) /\ phases[t].agg = "wait")
             ~> \/ t \in cancelled
                \/ t \in DOMAIN phases /\ phases[t].agg = "published"

\* C29 witness: a phase of two calls, one that ended in an error and one
\* that was denied, was followed by Paused; the error alone would not have
\* paused the agent
C29_Witness ==
    /\ state = St("Paused")
    /\ \E t \in DOMAIN phases :
          /\ phases[t].agg = "published" /\ t \notin cancelled
          /\ \E k \in TasksOf(t) : tools[k].res = "Denied"
          /\ \E k \in TasksOf(t) : tools[k].res \in {"Error", "PreviewError"}

Refusals == {"Forbidden", "Deny", "NoPermissionSystem"}

Permissions == {"Allow", "AllowAlways"}

\* C30, as stated: a call whose permission request was answered Deny,
\* Forbidden or NoPermissionSystem ends as Denied and its tool is never
\* executed; a call whose request was answered Allow or AllowAlways has its
\* tool executed exactly once.
C30_AnswerDecidesExecution ==
    \A k \in DOMAIN tools :
        (tools[k].presp # "" /\ tools[k].o = "done") =>
            /\ tools[k].presp \in Refusals =>
                  tools[k].res = "Denied" /\ tools[k].executed = 0
            /\ tools[k].presp \in Permissions => tools[k].executed = 1

\* C30, amended: after a refusal the tool is never executed, and the call
\* ends as Denied unless the token of the phase fired, in which case it may
\* end as cancelled; after a permission the tool is executed at most once,
\* and exactly once unless the token of the phase fired before the task
\* returned.
C30_AnswerDecidesExecutionUnlessCancelled ==
    \A k \in DOMAIN tools :
        tools[k].presp # "" =>
            /\ tools[k].executed <= 1
            /\ tools[k].presp \in Refusals => tools[k].executed = 0
            /\ tools[k].o = "done" =>
                  /\ tools[k].presp \in Refusals =>
                        tools[k].res \in {"Denied", "Cancelled"}
                  /\ k[1] \notin cancelled =>
                        /\ tools[k].presp \in Refusals =>
                              tools[k].res = "Denied"
                        /\ tools[k].presp \in Permissions =>
                              tools[k].executed = 1

\* C30 witness: a call that was answered AllowAlways ran once, in a phase
\* that was not cancelled
C30_Witness ==
    \E k \in DOMAIN tools :
        /\ k[1] \notin cancelled
        /\ tools[k].presp = "AllowAlways" /\ tools[k].o = "done"
        /\ tools[k].executed = 1 /\ tools[k].res = "Success"

\* the main loop takes from the command queue a command of one of the
\* types T and runs its handler
TakesCommand(T) ==
    /\ Looping /\ rx.created
    /\ cmdq # <<>> /\ Head(cmdq).type \in T
    /\ cmdq' = Tail(cmdq)

\* the tasks that wait for the answer to the permission request req
WaitingFor(req) ==
    {k \in DOMAIN tools :
        tools[k].i = "waitperm" /\ tools[k].req = req /\ tools[k].presp = ""}

\* C31: the permission requests of the tool tasks carry distinct ids; the
\* handler of a UserPermissionResponse answers Ack and hands the response
\* to the one waiting task whose request has the id it carries, and every
\* other task, waiting or not, is left as it is; a response whose id is the
\* id of no pending request leaves every task as it is; in both cases the
\* state, the trace, the claims, the tokens and the public events are
\* unchanged.
C31_ResponseUnblocksItsCall ==
    /\ [](\A k1, k2 \in DOMAIN tools :
            (tools[k1].req # 0 /\ tools[k1].req = tools[k2].req) => k1 = k2)
    /\ [][ TakesCommand({"UserPermissionResponse"}) =>
              /\ Cardinality(WaitingFor(Head(cmdq).req)) <= 1
              /\ \A k \in DOMAIN tools :
                    tools'[k] =
                        IF k \in WaitingFor(Head(cmdq).req)
                        THEN [tools[k] EXCEPT !.presp = Head(cmdq).arg]
                        ELSE tools[k]
              /\ DOMAIN tools' = DOMAIN tools
              /\ \E a \in replies' \ replies :
                    a.id = Head(cmdq).id /\ a.resp = "Ack"
              /\ UNCHANGED <<state, trace, claims, cancelled, events,
                             phases, brains>>
       ]_vars

\* C31 witness: of two calls that waited for a permission at the same time,
\* one has received the answer to its request and the other still waits
\* after a second response, which carried the id of no pending request, was
\* acknowledged
C31_Witness ==
    /\ \E k1, k2 \in DOMAIN tools :
          /\ k1[1] = k2[1] /\ k1 # k2
          /\ tools[k1].presp # ""
          /\ tools[k2].i = "waitperm" /\ tools[k2].presp = ""
          /\ tools[k2].req # 0
    /\ Cardinality({a \in replies : a.type = "UserPermissionResponse"
                                     /\ a.resp = "Ack"}) = 2

\* the preview of the call failed in the permission gate
PreviewFailed(k) == tools[k].ires = "PreviewError"

\* the tool messages of the trace, and the ToolCallCompleted events, that
\* tool task k produced
TaskMessages(k) ==
    {n \in 1..Len(trace) :
        /\ trace[n].role = "tool" /\ trace[n].tok = k[1]
        /\ trace[n].cid = CallOf(k).id}

TaskCompletions(k) ==
    {n \in 1..Len(events) :
        /\ events[n].type = "ToolCallCompleted" /\ events[n].tok = k[1]
        /\ events[n].cid = CallOf(k).id}

\* C32, as stated: a call whose preview returned an Error in the permission
\* gate has emitted no PermissionRequired and has not been executed; it ends
\* with the error of the preview, which is the result of its tool message
\* and of its ToolCallCompleted, and it does not make any_denied true.
C32_PreviewErrorEndsTheCall ==
    \A k \in DOMAIN tools :
        PreviewFailed(k) =>
            /\ tools[k].req = 0 /\ tools[k].executed = 0
            /\ tools[k].res \in {"", "PreviewError"}
            /\ \A n \in TaskMessages(k) : trace[n].res = "PreviewError"
            /\ \A n \in TaskCompletions(k) : events[n].res = "PreviewError"
            /\ tools[k].o \in {"emit", "done"} => TaskMessages(k) # {}
            /\ (tools[k].o = "done" /\ phases[k[1]].ptx) =>
                  TaskCompletions(k) # {}
            /\ \A n \in 1..Len(ibus) :
                  ( /\ ibus[n].type = "ToolsCompleted" /\ ibus[n].tok = k[1]
                    /\ ibus[n].any_denied ) =>
                      \E q \in TasksOf(k[1]) : q # k /\ tools[q].res = "Denied"

\* C32, amended: the same, except that the call ends with the cancellation
\* error instead when the token of the phase fires before the task has
\* taken the result of the permission gate.
C32_PreviewErrorEndsTheCallUnlessCancelled ==
    \A k \in DOMAIN tools :
        PreviewFailed(k) =>
            /\ tools[k].req = 0 /\ tools[k].executed = 0
            /\ tools[k].res \in {"", "PreviewError", "Cancelled"}
            /\ tools[k].res = "Cancelled" => k[1] \in cancelled
            /\ \A n \in TaskMessages(k) : trace[n].res = tools[k].res
            /\ \A n \in TaskCompletions(k) : events[n].res = tools[k].res
            /\ tools[k].o \in {"emit", "done"} => TaskMessages(k) # {}
            /\ (tools[k].o = "done" /\ phases[k[1]].ptx) =>
                  TaskCompletions(k) # {}
            /\ \A n \in 1..Len(ibus) :
                  ( /\ ibus[n].type = "ToolsCompleted" /\ ibus[n].tok = k[1]
                    /\ ibus[n].any_denied ) =>
                      \E q \in TasksOf(k[1]) : q # k /\ tools[q].res = "Denied"

\* C32 witness: a call whose preview failed has returned with that error in
\* the trace and in its ToolCallCompleted, and the ToolsCompleted of its
\* phase says that nothing was denied
C32_Witness ==
    \E k \in DOMAIN tools :
        /\ PreviewFailed(k) /\ tools[k].o = "done"
        /\ tools[k].res = "PreviewError"
        /\ \E n \in TaskMessages(k) : trace[n].res = "PreviewError"
        /\ \E n \in TaskCompletions(k) : events[n].res = "PreviewError"
        /\ \E n \in 1..Len(ibus) :
              /\ ibus[n].type = "ToolsCompleted" /\ ibus[n].tok = k[1]
              /\ ~ibus[n].any_denied

\* C33: a step that publishes the ToolCallCompleted of a started call (one
\* whose tool was located) finds the tool message of that call, with the
\* same result, already in the trace, and leaves the trace as it is.
C33_MessageBeforeToolCallCompleted ==
    [][ ( /\ Len(events') = Len(events) + 1
          /\ events'[Len(events')].type = "ToolCallCompleted"
          /\ events'[Len(events')].res \notin {"ParseError", "NotFound"} ) =>
            /\ trace' = trace
            /\ \E n \in 1..Len(trace) :
                  /\ trace[n].role = "tool"
                  /\ trace[n].tok = events'[Len(events')].tok
                  /\ trace[n].cid = events'[Len(events')].cid
                  /\ trace[n].res = events'[Len(events')].res
       ]_vars

\* C33 witness: the ToolCallCompleted of a call that ran was published, and
\* the trace holds the call's tool message
C33_Witness ==
    \E j \in 1..Len(events) :
        /\ events[j].type = "ToolCallCompleted" /\ events[j].res = "Success"
        /\ \E n \in 1..Len(trace) :
              /\ trace[n].role = "tool" /\ trace[n].tok = events[j].tok
              /\ trace[n].cid = events[j].cid /\ trace[n].res = "Success"

\* the keys a tool task can have in a run of Spec
LifeToolKeys == (1..(2 * MaxTurns)) \X {1}

\* the handler of a StopCurrentTask that found tool tasks in flight goes on
\* to Paused and to its Ack, whatever the tool tasks do
StopIsAnswered ==
    \A id \in 1..MaxCmds :
        (pend.k = "cmd" /\ pend.cmd.type = "StopCurrentTask"
            /\ pend.cmd.id = id)
          ~> \E a \in replies :
                a.id = id /\ a.resp = "Ack" /\ a.at = "Paused"

\* a started call whose task still waits for its result when the token of
\* its phase fires ends with the cancellation error
CancelledCallsEndCancelled ==
    \A k \in LifeToolKeys :
        (k \in DOMAIN tools /\ tools[k].o = "wait" /\ k[1] \in cancelled)
          ~> ( /\ k \in DOMAIN tools /\ tools[k].o = "done"
               /\ tools[k].res = "Cancelled" )

\* C34: the handler of a cancelling command does not wait for the tasks it
\* cancels: a StopCurrentTask taken during a tools phase is answered Ack in
\* the Paused state even if the execution of a tool never returns, and
\* every started call that is in flight then ends, without its execution
\* having to return, with a ToolCallCompleted whose result is the
\* cancellation error.
C34_CancellingDoesNotWait == StopIsAnswered /\ CancelledCallsEndCancelled

\* C35: handle_event called with a BrainResult or a ToolsCompleted while the
\* state is Starting, Paused, Completed or Failed leaves the state, the
\* trace, the claims and the public events as they are.
C35_LateResultsAreIgnored ==
    [][ ( /\ ibus # <<>> /\ ibus' = Tail(ibus)
          /\ Head(ibus).type \in {"BrainResult", "ToolsCompleted"}
          /\ state.name \in {"Starting", "Paused", "Completed", "Failed"} )
          => UNCHANGED <<state, trace, claims, events, cancelled, brains,
                         phases, tools>>
      ]_vars

\* C35 witness: two late results have been handled in the Paused state of
\* an agent with an event channel, and no event was emitted
C35_Witness ==
    /\ state = St("Paused") /\ ibus = <<>>
    /\ hasTx /\ events = <<>> /\ trace # <<>>


\* C36: handling GetState, Sudo, SwitchToolCallMethod, WaitTurn,
\* UserQueryResponse or UserPermissionResponse leaves the state and the
\* trace as they are and cancels no token; a brain task keeps the method it
\* was spawned with, and a brain task spawned later gets the method the agent
\* has at that moment
QuietCommandsCancelNothing ==
    TakesCommand(QuietTypes) =>
        /\ state' = state
        /\ trace' = trace
        /\ cancelled' = cancelled
        /\ brains' = brains /\ phases' = phases

BrainsKeepTheirMethod ==
    /\ \A t \in DOMAIN context :
            t \in DOMAIN context' /\ context'[t] = context[t]
    /\ \A t \in DOMAIN context' \ DOMAIN context : context'[t] = method

C36_QuietCommandsCancelNothing ==
    [][QuietCommandsCancelNothing /\ BrainsKeepTheirMethod]_vars

\* the method was switched while the first brain task was thinking: that
\* task kept FunctionCall and the next one got StructuredOutput
C36_Witness ==
    /\ DOMAIN context = {1, 2}
    /\ context[1] = "FunctionCall" /\ context[2] = "StructuredOutput"
    /\ \E r \in replies :
            /\ r.type = "SwitchToolCallMethod" /\ r.resp = "Method"
            /\ r.at = "Processing"


\* C37: a brain task is spawned only by a step taken in Running with no
\* command left in the command queue, and that step emits ThinkingStart and
\* moves to Processing: the commands queued in Running are handled first
SpawnsBrain == DOMAIN brains' # DOMAIN brains

C37_CommandsBeforeThinking ==
    [][SpawnsBrain =>
        /\ state.name = "Running" /\ cmdq = <<>>
        /\ state' = Processing("next_step", nextTok)
        /\ DOMAIN brains' = DOMAIN brains \cup {nextTok}
        /\ hasTx => /\ Len(events') > Len(events)
                     /\ \E n \in (Len(events) + 1)..Len(events') :
                            events'[n].type = "ThinkingStart"]_vars

\* two commands were handled in Running and then the first brain task was
\* spawned
C37_Witness ==
    /\ state = Processing("next_step", 1) /\ brains = <<"thinking">>
    /\ Cardinality({r \in replies : r.at = "Running" /\ r.path = "loop"}) = 2


\* C38: every step leaves the messages of the trace where they are and at
\* most adds messages at its end; the added messages are the input of a
\* SendUserInput or the block of a SendTrace the loop is handling, the
\* assistant message of the BrainResult the loop is handling, or the tool
\* message of a tool task that leaves its select
HandlesCommand(type) ==
    \/ cmdq # <<>> /\ cmdq' = Tail(cmdq) /\ Head(cmdq).type = type
    \/ pend.k = "cmd" /\ pend.cmd.type = type /\ pend' = NoPend

AppendedBy(m) ==
    CASE m.src = "input" -> HandlesCommand("SendUserInput")
      [] m.src = "trace" -> HandlesCommand("SendTrace")
      [] m.src = "brain" ->
            /\ state.name = "Processing" /\ ibus # <<>>
            /\ Head(ibus).type = "BrainResult" /\ Head(ibus).tok = m.tok
            /\ m.role = "assistant"
      [] m.src = "tool" ->
            /\ m.role = "tool"
            /\ \E k \in DOMAIN tools :
                    /\ k[1] = m.tok /\ CallOf(k).id = m.cid
                    /\ tools[k].o = "wait" /\ tools'[k].o = "emit"
      [] OTHER -> FALSE

C38_TraceIsAppendOnly ==
    [][/\ Len(trace') >= Len(trace)
       /\ SubSeq(trace', 1, Len(trace)) = trace
       /\ \A n \in (Len(trace) + 1)..Len(trace') : AppendedBy(trace'[n])]_vars

\* the trace holds what the brain-result handler, a tool task and a
\* SendTrace appended, in that order, behind the initial message
C38_Witness ==
    /\ Len(trace) >= 5
    /\ trace[1].src = "init" /\ trace[2].src = "brain"
    /\ trace[3].src = "tool" /\ trace[4].src = "trace"


\* the brain tasks still thinking and the tools phases with a task or the
\* aggregator still running, whose token has not fired
InFlightBrains ==
    {t \in DOMAIN brains : brains[t] = "thinking" /\ t \notin cancelled}

InFlightPhases ==
    {t \in DOMAIN phases :
        /\ t \notin cancelled
        /\ \/ phases[t].agg = "wait"
           \/ \E k \in TasksOf(t) : tools[k].o # "done"}

\* C39: at most one brain task or tools phase whose token has not fired is
\* in flight, whatever late BrainResult or ToolsCompleted the loop is
\* handed after a new Processing phase has begun
C39_OneTaskInFlight ==
    Cardinality(InFlightBrains \cup InFlightPhases) <= 1


\* C40: a tool message is never appended behind a message that a
\* SendUserInput or a SendTrace appended after the assistant message its
\* call came with, and no brain task is spawned while a started call has
\* still to append its tool message
FromCommand(m) == m.src \in {"input", "trace"}

AppendsBehindCommand(m) ==
    /\ m.src = "tool"
    /\ \E p \in (phases[m.tok].at + 1)..Len(trace) : FromCommand(trace[p])

C40_ToolMessagesBeforeLaterTurns ==
    [][/\ \A n \in (Len(trace) + 1)..Len(trace') :
            ~AppendsBehindCommand(trace'[n])
       /\ SpawnsBrain => \A k \in DOMAIN tools : tools[k].o # "wait"]_vars

====
